---- MODULE Spec2Model ----
(***************************************************************************)
(* Model of the user-profile data-access layer: SimpleCache (lib/cache),   *)
(* the UserProfileAPI facade (lib/api.ts) and the users table it talks to. *)
(*                                                                         *)
(* Text is modelled as a sequence of one-character strings, so that        *)
(* includes / startsWith / template literals are computed as the code      *)
(* computes them.  null and undefined are the one-element sequences Null   *)
(* and Undefined, whose single element is no character.                    *)
(***************************************************************************)
EXTENDS Integers, Sequences, FiniteSets, TLC

VARIABLES
    cache,      \* SimpleCache.cache : key -> [data, timestamp, ttl]
    now,        \* Date.now() of the browser process, in ms
    store,      \* rows of the users table, in insertion order
    nextId,     \* next id gen_random_uuid() hands out
    dbClock,    \* NOW() of the database, a logical clock
    calls,      \* facade calls suspended at their await
    ret,        \* what the last call returned, until the next call starts
    mon,        \* progress of the "create twice, then list" scenario
    ui          \* state of the App component and its handler at an await

vars == <<cache, now, store, nextId, dbClock, calls, ret, mon, ui>>

----------------------------------------------------------------------------
(* Bounds of the model *)

MaxJitter == 2
MaxMinutes == 5

(* Program constants *)

DefaultTTL == 300000
ListTTL == 180000
SearchTTL == 120000
Minute == 60000

----------------------------------------------------------------------------
(* JavaScript values *)

Null == <<"NULL">>
Undefined == <<"UNDEF">>
NullData == [null |-> TRUE]

\* a || b on text: "", null and undefined are falsy
OrElse(a, b) == IF a = <<>> \/ a = Null \/ a = Undefined THEN b ELSE a

\* String.prototype.includes
Includes(s, sub) ==
    \E i \in 1..(Len(s) - Len(sub) + 1) : SubSeq(s, i, i + Len(sub) - 1) = sub

\* String.prototype.startsWith
StartsWith(s, pre) == Len(pre) <= Len(s) /\ SubSeq(s, 1, Len(pre)) = pre

DigitChar == <<"0", "1", "2", "3", "4", "5", "6", "7", "8", "9">>

\* `${n}` for a natural number n
RECURSIVE NumText(_)
NumText(n) ==
    IF n < 10 THEN <<DigitChar[n + 1]>>
    ELSE NumText(n \div 10) \o <<DigitChar[(n % 10) + 1]>>

----------------------------------------------------------------------------
(* Text literals of the source, character by character *)

\* texts of the failure messages
Msg ==
    [emailExists |->
        <<"A", " ", "u", "s", "e", "r", " ", "w", "i", "t", "h", " ", "t", "h",
         "i", "s", " ", "e", "m", "a", "i", "l", " ", "a", "d", "d", "r", "e",
         "s", "s", " ", "a", "l", "r", "e", "a", "d", "y", " ", "e", "x", "i",
         "s", "t", "s", ".", " ", "P", "l", "e", "a", "s", "e", " ", "u", "s",
         "e", " ", "a", " ", "d", "i", "f", "f", "e", "r", "e", "n", "t", " ",
         "e", "m", "a", "i", "l", ".">>,

     duplicate |->
        <<"T", "h", "i", "s", " ", "i", "n", "f", "o", "r", "m", "a", "t", "i",
         "o", "n", " ", "a", "l", "r", "e", "a", "d", "y", " ", "e", "x", "i",
         "s", "t", "s", " ", "i", "n", " ", "t", "h", "e", " ", "s", "y", "s",
         "t", "e", "m", ".", " ", "P", "l", "e", "a", "s", "e", " ", "c", "h",
         "e", "c", "k", " ", "y", "o", "u", "r", " ", "d", "a", "t", "a", ".">>,

     failedPrefix |->
        <<"F", "a", "i", "l", "e", "d", " ", "t", "o", " ", "c", "o", "m", "p",
         "l", "e", "t", "e", " ">>,

     failedSuffix |->
        <<".", " ", "P", "l", "e", "a", "s", "e", " ", "t", "r", "y", " ", "a",
         "g", "a", "i", "n", ".">>,

     timedOut |->
        <<"R", "e", "q", "u", "e", "s", "t", " ", "t", "i", "m", "e", "d", " ",
         "o", "u", "t", ".", " ", "P", "l", "e", "a", "s", "e", " ", "c", "h",
         "e", "c", "k", " ", "y", "o", "u", "r", " ", "c", "o", "n", "n", "e",
         "c", "t", "i", "o", "n", " ", "a", "n", "d", " ", "t", "r", "y", " ",
         "a", "g", "a", "i", "n", ".">>,

     network |->
        <<"N", "e", "t", "w", "o", "r", "k", " ", "e", "r", "r", "o", "r", ".",
         " ", "P", "l", "e", "a", "s", "e", " ", "c", "h", "e", "c", "k", " ",
         "y", "o", "u", "r", " ", "c", "o", "n", "n", "e", "c", "t", "i", "o",
         "n", " ", "a", "n", "d", " ", "t", "r", "y", " ", "a", "g", "a", "i",
         "n", ".">>]

\* texts of the success messages
Ok ==
    [usersRetrieved |->
        <<"U", "s", "e", "r", "s", " ", "r", "e", "t", "r", "i", "e", "v", "e",
         "d", " ", "s", "u", "c", "c", "e", "s", "s", "f", "u", "l", "l", "y">>,

     usersFromCache |->
        <<"U", "s", "e", "r", "s", " ", "r", "e", "t", "r", "i", "e", "v", "e",
         "d", " ", "f", "r", "o", "m", " ", "c", "a", "c", "h", "e">>,

     userFound |->
        <<"U", "s", "e", "r", " ", "f", "o", "u", "n", "d">>,

     userCreated |->
        <<"U", "s", "e", "r", " ", "c", "r", "e", "a", "t", "e", "d", " ", "s",
         "u", "c", "c", "e", "s", "s", "f", "u", "l", "l", "y">>,

     userUpdated |->
        <<"U", "s", "e", "r", " ", "u", "p", "d", "a", "t", "e", "d", " ", "s",
         "u", "c", "c", "e", "s", "s", "f", "u", "l", "l", "y">>,

     userDeleted |->
        <<"U", "s", "e", "r", " ", "d", "e", "l", "e", "t", "e", "d", " ", "s",
         "u", "c", "c", "e", "s", "s", "f", "u", "l", "l", "y">>,

     foundPrefix |->
        <<"F", "o", "u", "n", "d", " ">>,

     foundSuffix |->
        <<" ", "u", "s", "e", "r", "s">>,

     foundCachedSuffix |->
        <<" ", "u", "s", "e", "r", "s", " ", "(", "c", "a", "c", "h", "e", "d",
         ")">>]

\* the context each operation names itself by
Ctx ==
    [getAllUsers |->
        <<"g", "e", "t", "A", "l", "l", "U", "s", "e", "r", "s">>,

     getUserById |->
        <<"g", "e", "t", "U", "s", "e", "r", "B", "y", "I", "d">>,

     createUser |->
        <<"c", "r", "e", "a", "t", "e", "U", "s", "e", "r">>,

     updateUser |->
        <<"u", "p", "d", "a", "t", "e", "U", "s", "e", "r">>,

     deleteUser |->
        <<"d", "e", "l", "e", "t", "e", "U", "s", "e", "r">>,

     searchUsers |->
        <<"s", "e", "a", "r", "c", "h", "U", "s", "e", "r", "s">>]

\* messages the store puts in a structured error
PgMessage ==
    [duplicateEmail |->
        <<"d", "u", "p", "l", "i", "c", "a", "t", "e", " ", "k", "e", "y", " ",
         "v", "a", "l", "u", "e", " ", "v", "i", "o", "l", "a", "t", "e", "s",
         " ", "u", "n", "i", "q", "u", "e", " ", "c", "o", "n", "s", "t", "r",
         "a", "i", "n", "t", " ", "\"", "u", "s", "e", "r", "s", "_", "e",
         "m", "a", "i", "l", "_", "k", "e", "y", "\"">>,

     duplicateOther |->
        <<"d", "u", "p", "l", "i", "c", "a", "t", "e", " ", "k", "e", "y", " ",
         "v", "a", "l", "u", "e", " ", "v", "i", "o", "l", "a", "t", "e", "s",
         " ", "u", "n", "i", "q", "u", "e", " ", "c", "o", "n", "s", "t", "r",
         "a", "i", "n", "t", " ", "\"", "u", "s", "e", "r", "s", "_", "p",
         "k", "e", "y", "\"">>,

     noRows |->
        <<"J", "S", "O", "N", " ", "o", "b", "j", "e", "c", "t", " ", "r", "e",
         "q", "u", "e", "s", "t", "e", "d", ",", " ", "m", "u", "l", "t", "i",
         "p", "l", "e", " ", "(", "o", "r", " ", "n", "o", ")", " ", "r", "o",
         "w", "s", " ", "r", "e", "t", "u", "r", "n", "e", "d">>,

     denied |->
        <<"p", "e", "r", "m", "i", "s", "s", "i", "o", "n", " ", "d", "e", "n",
         "i", "e", "d", " ", "f", "o", "r", " ", "t", "a", "b", "l", "e", " ",
         "u", "s", "e", "r", "s">>,

     tooLong |->
        <<"v", "a", "l", "u", "e", " ", "t", "o", "o", " ", "l", "o", "n", "g",
         " ", "f", "o", "r", " ", "t", "y", "p", "e", " ", "c", "h", "a", "r",
         "a", "c", "t", "e", "r", " ", "v", "a", "r", "y", "i", "n", "g", "(",
         "2", "0", ")">>,

     badFilter |->
        <<"f", "a", "i", "l", "e", "d", " ", "t", "o", " ", "p", "a", "r",
         "s", "e", " ", "l", "o", "g", "i", "c", " ", "t", "r", "e", "e">>,

     badRange |->
        <<"R", "e", "q", "u", "e", "s", "t", "e", "d", " ", "r", "a", "n",
         "g", "e", " ", "n", "o", "t", " ", "s", "a", "t", "i", "s", "f",
         "i", "a", "b", "l", "e">>]

\* messages of thrown errors
ThrownMessage ==
    [failedToFetch |->
        <<"F", "a", "i", "l", "e", "d", " ", "t", "o", " ", "f", "e", "t", "c",
         "h">>,

     timeout |->
        <<"t", "i", "m", "e", "o", "u", "t", " ", "o", "f", " ", "5", "0", "0",
         "0", "m", "s", " ", "e", "x", "c", "e", "e", "d", "e", "d">>,

     etimedout |->
        <<"c", "o", "n", "n", "e", "c", "t", " ", "E", "T", "I", "M", "E", "D",
         "O", "U", "T", " ", "1", "0", ".", "0", ".", "0", ".", "1", ":", "4",
         "4", "3">>,

     networkDown |->
        <<"n", "e", "t", "w", "o", "r", "k", " ", "i", "s", " ", "u", "n", "r",
         "e", "a", "c", "h", "a", "b", "l", "e">>,

     boom |->
        <<"s", "o", "c", "k", "e", "t", " ", "h", "a", "n", "g", " ", "u", "p">>,

     refusedEmail |->
        <<"e", "m", "a", "i", "l", " ", "r", "e", "l", "a", "y", " ", "r", "e",
         "f", "u", "s", "e", "d">>,

     networkTimeout |->
        <<"n", "e", "t", "w", "o", "r", "k", " ", "t", "i", "m", "e", "o", "u",
          "t", " ", "a", "t", ":", " ", "/", "u", "s", "e", "r", "s">>]

\* prefixes of the cache keys
Pfx ==
    [all |-> <<"u", "s", "e", "r", "s", ":", "a", "l", "l", ":">>,
     search |-> <<"u", "s", "e", "r", "s", ":", "s", "e", "a", "r", "c", "h", ":">>,
     id |-> <<"u", "s", "e", "r", "s", ":", "i", "d", ":">>]

\* the keywords the handlers look for
Kw ==
    [email |->
        <<"e", "m", "a", "i", "l">>,

     timeout |->
        <<"t", "i", "m", "e", "o", "u", "t">>,

     etimedout |->
        <<"E", "T", "I", "M", "E", "D", "O", "U", "T">>,

     fetch |->
        <<"f", "e", "t", "c", "h">>,

     network |->
        <<"n", "e", "t", "w", "o", "r", "k">>]

----------------------------------------------------------------------------
(* SimpleCache *)

\* ttl || this.defaultTTL ; the optional argument is <<>> (omitted) or <<t>>
EntryTTLBug(ttlArg) == DefaultTTL
EntryTTL(ttlArg) ==
    IF ttlArg = <<>> \/ ttlArg[1] = 0 THEN DefaultTTL ELSE ttlArg[1]

CacheSetKeep(c, key, data, ttlArg, t) ==
    IF key \in DOMAIN c THEN c
    ELSE [k \in (DOMAIN c) \cup {key} |->
             IF k = key
             THEN [data |-> data, timestamp |-> t, ttl |-> EntryTTL(ttlArg)]
             ELSE c[k]]
CacheSet(c, key, data, ttlArg, t) ==
    [k \in (DOMAIN c) \cup {key} |->
        IF k = key
        THEN [data |-> data, timestamp |-> t, ttl |-> EntryTTL(ttlArg)]
        ELSE c[k]]

CacheRemove(c, keys) == [k \in (DOMAIN c) \ keys |-> c[k]]

\* Date.now() - entry.timestamp > entry.ttl
ExpiredBug(entry, t) == t - entry.timestamp >= entry.ttl
Expired(entry, t) == t - entry.timestamp > entry.ttl

\* SimpleCache.get: the value returned
CacheGetValue(c, key, t) ==
    IF key \notin DOMAIN c THEN NullData
    ELSE IF Expired(c[key], t) THEN NullData
    ELSE c[key].data

\* SimpleCache.get / has: the map after the call
CacheAfterAccess(c, key, t) ==
    IF key \in DOMAIN c /\ Expired(c[key], t) THEN CacheRemove(c, {key}) ELSE c

\* SimpleCache.has: the value returned
CacheHasValue(c, key, t) == key \in DOMAIN c /\ ~Expired(c[key], t)

\* SimpleCache.cleanup
CacheCleanupAll(c, t) == CacheRemove(c, DOMAIN c)
CacheCleanup(c, t) == CacheRemove(c, {k \in DOMAIN c : Expired(c[k], t)})

\* SimpleCache.getStats().keys
CacheKeys(c) == DOMAIN c

NoEntry == [none |-> TRUE]
EntryOf(c, key) == IF key \in DOMAIN c THEN c[key] ELSE NoEntry

----------------------------------------------------------------------------
(* The cache on its own: every SimpleCache method, and the clock *)

CKeys == {<<"k", "1">>, <<"k", "2">>}
CValues == {[v |-> 1], [v |-> 2]}
CTtlArgs == {<<>>, <<0>>, <<1>>, <<Minute>>}

NoRet == [op |-> "none"]

\* no App component is part of the run
NoUI == [pc |-> "none"]

InitCache ==
    /\ cache = <<>>
    /\ now = 0
    /\ store = <<>>
    /\ nextId = 1
    /\ dbClock = 0
    /\ calls = <<>>
    /\ ret = NoRet
    /\ mon = [stage |-> 0]
    /\ ui = NoUI

facadeVars == <<store, nextId, dbClock, calls, mon, ui>>

CSet ==
    \E k \in CKeys, v \in CValues, a \in CTtlArgs :
        /\ cache' = CacheSet(cache, k, v, a, now)
        /\ ret' = [op |-> "set", key |-> k, data |-> v, ttlArg |-> a, at |-> now]
        /\ UNCHANGED <<now, facadeVars>>

CGet ==
    \E k \in CKeys :
        /\ cache' = CacheAfterAccess(cache, k, now)
        /\ ret' = [op |-> "get", key |-> k, had |-> EntryOf(cache, k),
                   value |-> CacheGetValue(cache, k, now), at |-> now]
        /\ UNCHANGED <<now, facadeVars>>

CHas ==
    \E k \in CKeys :
        /\ cache' = CacheAfterAccess(cache, k, now)
        /\ ret' = [op |-> "has", key |-> k, had |-> EntryOf(cache, k),
                   value |-> CacheHasValue(cache, k, now), at |-> now]
        /\ UNCHANGED <<now, facadeVars>>

CDelete ==
    \E k \in CKeys :
        /\ cache' = CacheRemove(cache, {k})
        /\ ret' = [op |-> "delete", key |-> k, value |-> (k \in DOMAIN cache)]
        /\ UNCHANGED <<now, facadeVars>>

CClear ==
    /\ cache' = <<>>
    /\ ret' = [op |-> "clear"]
    /\ UNCHANGED <<now, facadeVars>>

CCleanup ==
    /\ cache' = CacheCleanup(cache, now)
    /\ ret' = [op |-> "cleanup"]
    /\ UNCHANGED <<now, facadeVars>>

\* The clock moves by a millisecond or by a minute
TickBy(d) ==
    /\ now + d <= MaxMinutes * Minute + MaxJitter
    /\ (now + d) % Minute <= MaxJitter
    /\ now' = now + d

CTick ==
    /\ \E d \in {1, Minute} : TickBy(d)
    /\ ret' = NoRet
    /\ UNCHANGED <<cache, facadeVars>>

NextCache == CSet \/ CGet \/ CHas \/ CDelete \/ CClear \/ CCleanup \/ CTick

SpecCache == InitCache /\ [][NextCache]_vars

\* C2: an entry stored at t0 with time-to-live ttl is returned by get at time
\* now iff now - t0 <= ttl; once it is expired get returns null, has returns
\* false, and that access removes the key from getStats().keys.
CacheTTL_C2 ==
    (ret.op \in {"get", "has"} /\ ret.had # NoEntry) =>
        LET age == ret.at - ret.had.timestamp
            live == age <= ret.had.ttl
        IN  /\ ret.op = "get" => ((ret.value = ret.had.data) <=> live)
            /\ ret.op = "has" => (ret.value <=> live)
            /\ ~live => /\ ret.op = "get" => ret.value = NullData
                        /\ ret.key \notin CacheKeys(cache)
            /\ live => cache = [cache EXCEPT ![ret.key] = ret.had]

\* C2 witness: a get one millisecond after the default time-to-live ran out
CacheTTL_C2_Witness ==
    /\ ret.op = "get"
    /\ ret.had # NoEntry
    /\ ret.at - ret.had.timestamp = ret.had.ttl + 1
    /\ ret.had.ttl = DefaultTTL

\* C3 as claimed: set without ttl gives exactly the default, and set with an
\* explicit ttl t gives exactly t, for every explicit t.
SetTTL_C3_Claim ==
    ret.op = "set" =>
        cache[ret.key].ttl =
            (IF ret.ttlArg = <<>> THEN DefaultTTL ELSE ret.ttlArg[1])

----------------------------------------------------------------------------
(* Response normalisation: SUPABASE_ERROR_MAP, handleSupabaseResponse,     *)
(* handleNetworkError                                                      *)

NoError == [none |-> TRUE]
NoCode == "<undefined>"

ErrorMapCodes ==
    {"23505", "23503", "23502", "23514", "42501", "42P01",
     "PGRST116", "PGRST301", "PGRST302", "PGRST204", "PGRST103",
     "ECONNREFUSED", "ETIMEDOUT", "ENOTFOUND"}

\* SUPABASE_ERROR_MAP[code].message
ErrorMapMessage(code) ==
    CASE code = "23505" ->
           <<"A", " ", "r", "e", "c", "o", "r", "d", " ", "w", "i", "t", "h", " ",
             "t", "h", "i", "s", " ", "i", "n", "f", "o", "r", "m", "a", "t", "i",
             "o", "n", " ", "a", "l", "r", "e", "a", "d", "y", " ", "e", "x", "i",
             "s", "t", "s", ".">>
      [] code = "23503" ->
           <<"R", "e", "f", "e", "r", "e", "n", "c", "e", "d", " ", "r", "e", "c",
             "o", "r", "d", " ", "d", "o", "e", "s", " ", "n", "o", "t", " ", "e",
             "x", "i", "s", "t", ".">>
      [] code = "23502" ->
           <<"R", "e", "q", "u", "i", "r", "e", "d", " ", "f", "i", "e", "l", "d",
             " ", "i", "s", " ", "m", "i", "s", "s", "i", "n", "g", ".">>
      [] code = "23514" ->
           <<"D", "a", "t", "a", " ", "v", "a", "l", "i", "d", "a", "t", "i", "o",
             "n", " ", "f", "a", "i", "l", "e", "d", ".">>
      [] code = "42501" ->
           <<"A", "c", "c", "e", "s", "s", " ", "d", "e", "n", "i", "e", "d", ".">>
      [] code = "42P01" ->
           <<"D", "a", "t", "a", "b", "a", "s", "e", " ", "t", "a", "b", "l", "e",
             " ", "n", "o", "t", " ", "f", "o", "u", "n", "d", ".">>
      [] code = "PGRST116" ->
           <<"R", "e", "c", "o", "r", "d", " ", "n", "o", "t", " ", "f", "o", "u",
             "n", "d", ".">>
      [] code = "PGRST301" ->
           <<"I", "n", "v", "a", "l", "i", "d", " ", "r", "e", "q", "u", "e", "s",
             "t", " ", "f", "o", "r", "m", "a", "t", ".">>
      [] code = "PGRST302" ->
           <<"I", "n", "v", "a", "l", "i", "d", " ", "q", "u", "e", "r", "y", " ",
             "p", "a", "r", "a", "m", "e", "t", "e", "r", "s", ".">>
      [] code = "PGRST204" ->
           <<"I", "n", "v", "a", "l", "i", "d", " ", "r", "a", "n", "g", "e", " ",
             "s", "p", "e", "c", "i", "f", "i", "e", "d", ".">>
      [] code = "PGRST103" ->
           <<"I", "n", "v", "a", "l", "i", "d", " ", "J", "S", "O", "N", " ", "f",
             "o", "r", "m", "a", "t", ".">>
      [] code = "ECONNREFUSED" ->
           <<"U", "n", "a", "b", "l", "e", " ", "t", "o", " ", "c", "o", "n", "n",
             "e", "c", "t", " ", "t", "o", " ", "d", "a", "t", "a", "b", "a", "s",
             "e", ".", " ", "P", "l", "e", "a", "s", "e", " ", "t", "r", "y", " ",
             "a", "g", "a", "i", "n", " ", "l", "a", "t", "e", "r", ".">>
      [] code = "ETIMEDOUT" ->
           <<"R", "e", "q", "u", "e", "s", "t", " ", "t", "i", "m", "e", "d", " ",
             "o", "u", "t", ".", " ", "P", "l", "e", "a", "s", "e", " ", "t", "r",
             "y", " ", "a", "g", "a", "i", "n", ".">>
      [] code = "ENOTFOUND" ->
           <<"D", "a", "t", "a", "b", "a", "s", "e", " ", "s", "e", "r", "v", "i",
             "c", "e", " ", "u", "n", "a", "v", "a", "i", "l", "a", "b", "l", "e",
             ".">>

Env(data, success, message) ==
    [data |-> data, success |-> success, message |-> message]

\* the 23505 branch: email-specific or generic conflict message
ConflictMessageBug(error) == ErrorMapMessage("23505")
ConflictMessage(error) ==
    IF Includes(error.message, Kw.email) THEN Msg.emailExists ELSE Msg.duplicate

\* the fallback for unmapped codes
FallbackMessageBug(error, context) == error.message
FallbackMessage(error, context) == Msg.failedPrefix \o context \o Msg.failedSuffix

HandleSupabaseResponse(data, error, successMessage, context) ==
    IF error # NoError
    THEN IF error.code \in ErrorMapCodes
         THEN IF error.code = "23505"
              THEN Env(data, FALSE, ConflictMessage(error))
              ELSE Env(data, FALSE, ErrorMapMessage(error.code))
         ELSE Env(data, FALSE, FallbackMessage(error, context))
    ELSE Env(data, TRUE, successMessage)

\* a thrown value: [isError, code, message]
\* the same, with the connection branch reporting success
HandleNetworkErrorBug(error, context, fallbackData) ==
    IF error.isError /\ error.code \in ErrorMapCodes
    THEN Env(fallbackData, FALSE, ErrorMapMessage(error.code))
    ELSE IF error.isError /\ (Includes(error.message, Kw.timeout)
                              \/ Includes(error.message, Kw.etimedout))
    THEN Env(fallbackData, FALSE, Msg.timedOut)
    ELSE Env(fallbackData, TRUE, Msg.network)

\* the same, with the text looked at before the code
HandleNetworkErrorTextFirst(error, context, fallbackData) ==
    IF error.isError /\ (Includes(error.message, Kw.timeout)
                         \/ Includes(error.message, Kw.etimedout))
    THEN Env(fallbackData, FALSE, Msg.timedOut)
    ELSE IF error.isError /\ error.code \in ErrorMapCodes
    THEN Env(fallbackData, FALSE, ErrorMapMessage(error.code))
    ELSE Env(fallbackData, FALSE, Msg.network)

HandleNetworkError(error, context, fallbackData) ==
    IF error.isError /\ error.code \in ErrorMapCodes
    THEN Env(fallbackData, FALSE, ErrorMapMessage(error.code))
    ELSE IF error.isError /\ (Includes(error.message, Kw.timeout)
                              \/ Includes(error.message, Kw.etimedout))
    THEN Env(fallbackData, FALSE, Msg.timedOut)
    ELSE IF error.isError /\ (Includes(error.message, Kw.fetch)
                              \/ Includes(error.message, Kw.network))
    THEN Env(fallbackData, FALSE, Msg.network)
    ELSE Env(fallbackData, FALSE, Msg.network)

----------------------------------------------------------------------------
(* The normaliser on its own: every error the store client can hand back   *)
(* or throw, over a bounded set of codes and texts                         *)

Contexts ==
    {Ctx.getAllUsers, Ctx.getUserById, Ctx.createUser, Ctx.updateUser,
     Ctx.deleteUser, Ctx.searchUsers}

UnmappedCodes == {"22001", "PGRST000", ""}

StoreErrors ==
    [code : ErrorMapCodes \cup UnmappedCodes,
     message : {PgMessage.duplicateEmail, PgMessage.duplicateOther, PgMessage.noRows, PgMessage.denied,
                ThrownMessage.refusedEmail},
     details : {<<>>, ThrownMessage.boom},
     hint : {<<>>, PgMessage.tooLong}]

ThrownErrors ==
    [isError : BOOLEAN,
     code : {NoCode, "ECONNREFUSED", "ETIMEDOUT", "ENOTFOUND", "ECONNRESET"},
     message : {ThrownMessage.failedToFetch, ThrownMessage.timeout, ThrownMessage.etimedout, ThrownMessage.networkDown,
                ThrownMessage.boom, ThrownMessage.refusedEmail,
                ThrownMessage.networkTimeout}]

ClassifyData == {NullData, [v |-> 1]}

ClassifyStore ==
    \E e \in StoreErrors, ctx \in Contexts, d \in ClassifyData :
        /\ ret = NoRet
        /\ ret' = [op |-> "classify", kind |-> "store", error |-> e,
                   context |-> ctx, data |-> d,
                   env |-> HandleSupabaseResponse(d, e, Ok.userFound, ctx)]
        /\ UNCHANGED <<cache, now, facadeVars>>

ClassifyThrown ==
    \E e \in ThrownErrors, ctx \in Contexts, d \in ClassifyData :
        /\ ret = NoRet
        /\ ret' = [op |-> "classify", kind |-> "thrown", error |-> e,
                   context |-> ctx, data |-> d,
                   env |-> HandleNetworkError(e, ctx, d)]
        /\ UNCHANGED <<cache, now, facadeVars>>

NextClassify == ClassifyStore \/ ClassifyThrown

SpecClassify == InitCache /\ [][NextClassify]_vars

\* the three keyword tests of the normaliser
HasEmailKw(m) == Includes(m, Kw.email)
HasTimeoutKw(m) == Includes(m, Kw.timeout) \/ Includes(m, Kw.etimedout)
HasNetworkKw(m) == Includes(m, Kw.fetch) \/ Includes(m, Kw.network)
KwAgree(m1, m2) ==
    /\ HasEmailKw(m1) <=> HasEmailKw(m2)
    /\ HasTimeoutKw(m1) <=> HasTimeoutKw(m2)
    /\ HasNetworkKw(m1) <=> HasNetworkKw(m2)

\* C8: for a store error with code 23505 the message is the email-specific
\* conflict message when the error's message contains "email" and the
\* generic conflict message when it does not, whatever else the error holds.
Conflict_C8 ==
    (ret.op = "classify" /\ ret.kind = "store" /\ ret.error.code = "23505") =>
        /\ HasEmailKw(ret.error.message) => ret.env.message = Msg.emailExists
        /\ ~HasEmailKw(ret.error.message) => ret.env.message = Msg.duplicate
        /\ \A e2 \in StoreErrors :
              (e2.code = "23505"
               /\ (HasEmailKw(e2.message) <=> HasEmailKw(ret.error.message)))
              => HandleSupabaseResponse(ret.data, e2, Ok.userFound, ret.context)
                   = ret.env

\* C8 witness: a 23505 error naming the email constraint, with details set
Conflict_C8_Witness ==
    /\ ret.op = "classify" /\ ret.kind = "store"
    /\ ret.error.code = "23505"
    /\ ret.error.message = PgMessage.duplicateEmail
    /\ ret.error.details # <<>>
    /\ ret.env.message = Msg.emailExists

\* C9 as claimed: any error whose code is not in SUPABASE_ERROR_MAP yields
\* "Failed to complete <operation>. Please try again."
NoLeak_C9_Claim ==
    (ret.op = "classify"
     /\ ~(ret.error.code \in ErrorMapCodes
          /\ (ret.kind = "thrown" => ret.error.isError))) =>
        ret.env.message = Msg.failedPrefix \o ret.context \o Msg.failedSuffix

\* C9 amended: no failure message contains the raw error text; a store error
\* with an unmapped code yields "Failed to complete <operation>. Please try
\* again."; a thrown error without a mapped code yields one of the two fixed
\* connectivity messages; errors with the same code that agree on the keyword
\* tests yield identical envelopes.
NoLeak_C9 ==
    ret.op = "classify" =>
        /\ ~ret.env.success
        /\ ~Includes(ret.env.message, ret.error.message)
        /\ ret.kind = "store" =>
              /\ ret.error.details # <<>> =>
                    ~Includes(ret.env.message, ret.error.details)
              /\ ret.error.hint # <<>> =>
                    ~Includes(ret.env.message, ret.error.hint)
              /\ ret.error.code \notin ErrorMapCodes =>
                    ret.env.message =
                        Msg.failedPrefix \o ret.context \o Msg.failedSuffix
              /\ \A e2 \in StoreErrors :
                    (e2.code = ret.error.code
                     /\ KwAgree(e2.message, ret.error.message))
                    => HandleSupabaseResponse(ret.data, e2, Ok.userFound,
                                              ret.context) = ret.env
        /\ ret.kind = "thrown" =>
              /\ ~(ret.error.isError /\ ret.error.code \in ErrorMapCodes) =>
                    ret.env.message \in {Msg.timedOut, Msg.network}
              /\ \A e2 \in ThrownErrors :
                    (e2.code = ret.error.code
                     /\ e2.isError = ret.error.isError
                     /\ KwAgree(e2.message, ret.error.message))
                    => HandleNetworkError(e2, ret.context, ret.data) = ret.env

\* C9 witness: a store error with an unmapped code, classified
NoLeak_C9_Witness ==
    /\ ret.op = "classify" /\ ret.kind = "store"
    /\ ret.error.code = "22001"
    /\ ret.error.message = PgMessage.denied
    /\ ret.error.hint = PgMessage.tooLong
    /\ ret.context = Ctx.updateUser
    /\ ret.env.message = Msg.failedPrefix \o Ctx.updateUser \o Msg.failedSuffix

----------------------------------------------------------------------------
(* Cache keys and invalidation (lib/cache) *)

KeyAllUsers(page, limit) ==
    Pfx.all \o NumText(page) \o <<":">> \o NumText(limit)

KeySearchUsersGlued(query, page, limit) ==
    Pfx.search \o query \o NumText(page) \o <<":">> \o NumText(limit)
KeySearchUsers(query, page, limit) ==
    Pfx.search \o query \o <<":">> \o NumText(page) \o <<":">>
        \o NumText(limit)

KeyUserById(id) == Pfx.id \o NumText(id)

\* invalidateCache.allUsers
InvalidateAllUsersBug(c) ==
    CacheRemove(c, {k \in CacheKeys(c) : StartsWith(k, Pfx.all)})
InvalidateAllUsersNoop(c) == c
InvalidateAllUsers(c) ==
    CacheRemove(c, {k \in CacheKeys(c) :
                       StartsWith(k, Pfx.all)
                       \/ StartsWith(k, Pfx.search)})

\* invalidateCache.userById
InvalidateUserById(c, id) == CacheRemove(c, {KeyUserById(id)})

----------------------------------------------------------------------------
(* Rows, domain records and the mappings between them *)

OptionalColumns ==
    {"phone_number", "bio", "avatar_url", "date_of_birth", "location"}
Columns == {"full_name", "email"} \cup OptionalColumns

\* camelCase field of a snake_case column
FieldOf(col) ==
    CASE col = "full_name" -> "fullName"
      [] col = "email" -> "email"
      [] col = "phone_number" -> "phoneNumber"
      [] col = "bio" -> "bio"
      [] col = "avatar_url" -> "avatarUrl"
      [] col = "date_of_birth" -> "dateOfBirth"
      [] col = "location" -> "location"

\* transformUser with location read from the wrong column
TransformUserBug(user) ==
    [id |-> user.id,
     fullName |-> user.full_name,
     email |-> user.email,
     phoneNumber |-> OrElse(user.phone_number, <<>>),
     bio |-> OrElse(user.bio, <<>>),
     avatarUrl |-> OrElse(user.avatar_url, <<>>),
     dateOfBirth |-> OrElse(user.date_of_birth, <<>>),
     location |-> OrElse(user.bio, <<>>),
     createdAt |-> user.created_at,
     updatedAt |-> user.updated_at]
\* transformUser
TransformUser(user) ==
    [id |-> user.id,
     fullName |-> user.full_name,
     email |-> user.email,
     phoneNumber |-> OrElse(user.phone_number, <<>>),
     bio |-> OrElse(user.bio, <<>>),
     avatarUrl |-> OrElse(user.avatar_url, <<>>),
     dateOfBirth |-> OrElse(user.date_of_birth, <<>>),
     location |-> OrElse(user.location, <<>>),
     createdAt |-> user.created_at,
     updatedAt |-> user.updated_at]

\* {} as User
PlaceholderUser == [placeholder |-> TRUE]

\* createUser: insertData
InsertData(userData) ==
    [full_name |-> userData.fullName,
     email |-> userData.email,
     phone_number |-> OrElse(userData.phoneNumber, Null),
     bio |-> OrElse(userData.bio, Null),
     avatar_url |-> OrElse(userData.avatarUrl, Null),
     date_of_birth |-> OrElse(userData.dateOfBirth, Null),
     location |-> OrElse(userData.location, Null)]

\* updateUser: updateData holds a column for every field that is not undefined
UpdateDataStamp(userData) ==
    [c \in {col \in Columns : userData[FieldOf(col)] # Undefined}
            \cup {"created_at"} |->
        IF c = "created_at" THEN 0
        ELSE IF c \in OptionalColumns
        THEN OrElse(userData[FieldOf(c)], Null)
        ELSE userData[FieldOf(c)]]
UpdateDataBug(userData) ==
    [c \in Columns |->
        IF c \in OptionalColumns
        THEN OrElse(userData[FieldOf(c)], Null)
        ELSE userData[FieldOf(c)]]
UpdateData(userData) ==
    [c \in {col \in Columns : userData[FieldOf(col)] # Undefined} |->
        IF c \in OptionalColumns
        THEN OrElse(userData[FieldOf(c)], Null)
        ELSE userData[FieldOf(c)]]

----------------------------------------------------------------------------
(* The users table behind the Supabase client *)

NullRows == [isNull |-> TRUE]
SomeRows(rows) == [isNull |-> FALSE, rows |-> rows]
NoThrow == [none |-> TRUE]

ErrDuplicateEmail ==
    [code |-> "23505", message |-> PgMessage.duplicateEmail, details |-> <<>>,
     hint |-> <<>>]
ErrNoRows ==
    [code |-> "PGRST116", message |-> PgMessage.noRows, details |-> <<>>,
     hint |-> <<>>]
ErrBadFilter ==
    [code |-> "PGRST100", message |-> PgMessage.badFilter, details |-> <<>>,
     hint |-> <<>>]
ErrBadRange ==
    [code |-> "PGRST103", message |-> PgMessage.badRange,
     details |-> <<>>, hint |-> <<>>]

\* a reply of the store client: { data, error, count }, or a thrown value
Reply(data, error, count) ==
    [data |-> data, error |-> error, count |-> count, thrown |-> NoThrow,
     matched |-> 0]
ReplyThrown(e) ==
    [data |-> NullData, error |-> NoError, count |-> <<>>, thrown |-> e,
     matched |-> 0]

\* .order("created_at", { ascending: false }): rows are kept in insertion
\* order and created_at grows with every insert
NewestFirst(rows) == [i \in 1..Len(rows) |-> rows[Len(rows) + 1 - i]]

\* .range(from, to)
Range(rows, from, to) ==
    IF from >= Len(rows) THEN <<>>
    ELSE SubSeq(rows, from + 1, IF to + 1 < Len(rows) THEN to + 1 ELSE Len(rows))

\* the rows at the indexes idx, in their order
Keep(rows, idx) ==
    LET F[i \in 0..Len(rows)] ==
            IF i = 0 THEN <<>>
            ELSE IF i \in idx THEN Append(F[i - 1], rows[i]) ELSE F[i - 1]
    IN  F[Len(rows)]

UpperChars == <<"A", "B", "C", "D", "E", "F", "G", "H", "I", "J", "K", "L", "M",
                "N", "O", "P", "Q", "R", "S", "T", "U", "V", "W", "X", "Y", "Z">>
LowerChars == <<"a", "b", "c", "d", "e", "f", "g", "h", "i", "j", "k", "l", "m",
                "n", "o", "p", "q", "r", "s", "t", "u", "v", "w", "x", "y", "z">>

ToLowerChar(c) ==
    IF \E i \in 1..26 : UpperChars[i] = c
    THEN LowerChars[CHOOSE i \in 1..26 : UpperChars[i] = c]
    ELSE c

\* String.prototype.toLowerCase
ToLowerCaseBug(s) == s
ToLowerCase(s) == [i \in 1..Len(s) |-> ToLowerChar(s[i])]

\* String.prototype.trim
RECURSIVE Trim(_)
Trim(s) ==
    IF s = <<>> THEN s
    ELSE IF Head(s) = " " THEN Trim(Tail(s))
    ELSE IF s[Len(s)] = " " THEN Trim(SubSeq(s, 1, Len(s) - 1))
    ELSE s

\* text LIKE pattern: % (written * as well in a PostgREST filter) stands for
\* any run of characters and _ for any one character
RECURSIVE LikeMatch(_, _)
LikeMatch(text, pattern) ==
    IF pattern = <<>> THEN text = <<>>
    ELSE IF Head(pattern) \in {"%", "*"}
    THEN \/ LikeMatch(text, Tail(pattern))
         \/ text # <<>> /\ LikeMatch(Tail(text), pattern)
    ELSE /\ text # <<>>
         /\ Head(pattern) = "_" \/ Head(pattern) = Head(text)
         /\ LikeMatch(Tail(text), Tail(pattern))

\* column.ilike.%q% : the query text is part of the pattern; NULL never
\* matches
Ilike(value, q) ==
    /\ value # Null
    /\ LikeMatch(ToLowerCase(value), <<"%">> \o ToLowerCase(q) \o <<"%">>)

\* the .or(...) filter of searchUsers
SearchMatches(row, q) ==
    \/ Ilike(row.full_name, q)
    \/ Ilike(row.email, q)
    \/ Ilike(row.location, q)
    \/ Ilike(row.bio, q)

\* select("*", { count: 'exact' }) ... .range(from, to)
SelectRange(rows, from, to) ==
    Reply(SomeRows(Range(NewestFirst(rows), from, to)), NoError, <<Len(rows)>>)

\* characters that end a condition inside .or(...)
ReservedChars == {",", "(", ")"}

\* the store's answer to the search request: the filter text is parsed by
\* the store, and a query holding a reserved character breaks it
SearchReply(rows, normalizedQuery, from, to) ==
    IF \E i \in 1..Len(normalizedQuery) : normalizedQuery[i] \in ReservedChars
    THEN Reply(NullRows, ErrBadFilter, <<>>)
    ELSE SelectRange(Keep(rows, {i \in 1..Len(rows) :
                                   SearchMatches(rows[i], normalizedQuery)}),
                     from, to)

RowsWithId(rows, id) == {i \in 1..Len(rows) : rows[i].id = id}

\* .single(): exactly one row, or the error PGRST116
SingleResult(rows, idx) ==
    IF Cardinality(idx) = 1
    THEN [Reply(rows[CHOOSE i \in idx : TRUE], NoError, <<>>)
             EXCEPT !.matched = 1]
    ELSE [Reply(NullData, ErrNoRows, <<>>)
             EXCEPT !.matched = Cardinality(idx)]

\* the row the table holds after INSERT: id, created_at and updated_at are
\* column defaults
InsertedRow(insertData, id, t) ==
    [id |-> id,
     full_name |-> insertData.full_name,
     email |-> insertData.email,
     phone_number |-> insertData.phone_number,
     bio |-> insertData.bio,
     avatar_url |-> insertData.avatar_url,
     date_of_birth |-> insertData.date_of_birth,
     location |-> insertData.location,
     created_at |-> t,
     updated_at |-> t]

\* the row after UPDATE: the written columns, and updated_at by the trigger
UpdatedRow(row, updateData, t) ==
    [c \in DOMAIN row |->
        IF c \in DOMAIN updateData THEN updateData[c]
        ELSE IF c = "updated_at" THEN t
        ELSE row[c]]

EmailTaken(rows, email, exceptId) ==
    \E i \in 1..Len(rows) : rows[i].email = email /\ rows[i].id # exceptId

----------------------------------------------------------------------------
(* Bounds and inputs of the facade model *)

MaxUsers == 2
MaxUpdates == 1
MaxTicks == 2

DefaultLimit == 20

Slots == DOMAIN calls

\* the clock of the facade model moves in steps of two minutes
TickStep == 2 * Minute
Ids == 1..MaxUsers

\* sample values of the form fields
Sample ==
    [mailA |-> <<"a", "@", "x">>,
     mailB |-> <<"b", "@", "x">>,
     nameAnn |-> <<"A", "n", "n">>,
     nameBob |-> <<"B", "o">>,
     phone1 |-> <<"5", "5">>,
     bio1 |-> <<"d", "e", "v">>,
     avatar1 |-> <<"u">>,
     dob1 |-> <<"1", "9", "9", "0">>,
     loc1 |-> <<"N", "Y">>]

FormAnn ==
    [fullName |-> Sample.nameAnn, email |-> Sample.mailA, phoneNumber |-> <<>>,
     bio |-> <<>>, avatarUrl |-> <<>>, dateOfBirth |-> <<>>,
     location |-> <<>>]
FormBob ==
    [fullName |-> Sample.nameBob, email |-> Sample.mailB, phoneNumber |-> Sample.phone1,
     bio |-> Sample.bio1, avatarUrl |-> Sample.avatar1, dateOfBirth |-> Sample.dob1,
     location |-> Sample.loc1]

CreateInputs == {FormAnn, FormBob}

NoFields ==
    [fullName |-> Undefined, email |-> Undefined, phoneNumber |-> Undefined,
     bio |-> Undefined, avatarUrl |-> Undefined, dateOfBirth |-> Undefined,
     location |-> Undefined]

UpdateInputs ==
    {NoFields,
     [NoFields EXCEPT !.fullName = <<>>, !.bio = <<>>, !.phoneNumber = <<>>],
     [NoFields EXCEPT !.email = Sample.mailA, !.location = Sample.loc1],
     FormBob}

ListArgs == {[page |-> 1, limit |-> DefaultLimit], [page |-> 2, limit |-> 1]}

SearchArgs ==
    {[query |-> <<"a">>, page |-> 1, limit |-> DefaultLimit],
     [query |-> <<" ", "A">>, page |-> 1, limit |-> DefaultLimit]}

\* errors the store client reports or throws whatever the request was
InjectedErrors ==
    {[code |-> "22001", message |-> PgMessage.tooLong, details |-> <<>>,
      hint |-> <<>>]}
InjectedThrows ==
    {[isError |-> TRUE, code |-> NoCode, message |-> ThrownMessage.failedToFetch]}

Idle == [op |-> "idle"]
NoResp == [none |-> TRUE]
Call(op, arg) == [op |-> op, arg |-> arg, pc |-> "sent", resp |-> NoResp]

Sent(s, op) == calls[s] # Idle /\ calls[s].op = op /\ calls[s].pc = "sent"
Replied(s, op) ==
    calls[s] # Idle /\ calls[s].op = op /\ calls[s].pc = "replied"
Quiet(s) == \A o \in Slots \ {s} : calls[o] = Idle

\* a new call takes the lowest free slot
FreeSlot(s) == calls[s] = Idle /\ \A o \in Slots : o < s => calls[o] # Idle

MonIdle == [stage |-> 0]

\* the scenario "createUser(e) succeeds, createUser(e) again, then
\* getAllUsers(1, 20)", followed while no other call is in flight
MonStep(m, r, quiet) ==
    IF /\ quiet /\ m.stage = 1 /\ r.op = "createUser"
       /\ r.arg.email = m.email
       /\ r.resp.thrown = NoThrow
       /\ r.resp.error \in {NoError, ErrDuplicateEmail}
    THEN [stage |-> 2, email |-> m.email, id |-> m.id,
          cachedBefore |-> m.cachedBefore,
          second |-> [success |-> r.env.success, message |-> r.env.message]]
    ELSE IF quiet /\ r.op = "createUser" /\ r.env.success
    THEN [stage |-> 1, email |-> r.arg.email, id |-> r.env.data.id,
          cachedBefore |->
              CacheHasValue(cache, KeyAllUsers(1, DefaultLimit), now)]
    ELSE IF /\ quiet /\ m.stage = 2 /\ r.op = "getAllUsers"
            /\ r.arg = [page |-> 1, limit |-> DefaultLimit]
            /\ (r.hit \/ (r.resp.thrown = NoThrow /\ r.resp.error = NoError))
    THEN [stage |-> 3, email |-> m.email, id |-> m.id,
          cachedBefore |-> m.cachedBefore, second |-> m.second,
          hit |-> r.hit,
          listed |-> Keep(r.env.data.users,
                         {i \in 1..Len(r.env.data.users) :
                             r.env.data.users[i].email = m.email})]
    ELSE MonIdle

Returned(op, arg, hit, resp, env) ==
    [op |-> op, arg |-> arg, hit |-> hit, resp |-> resp, env |-> env]

Complete(s, r) ==
    /\ ret' = r
    /\ calls' = [calls EXCEPT ![s] = Idle]
    /\ mon' = MonStep(mon, r, Quiet(s))

CompleteHit(r) ==
    /\ ret' = r
    /\ mon' = MonStep(mon, r, \A o \in Slots : calls[o] = Idle)
    /\ UNCHANGED calls

Suspend(s, op, arg) ==
    /\ FreeSlot(s)
    /\ calls' = [calls EXCEPT ![s] = Call(op, arg)]
    /\ ret' = NoRet
    /\ UNCHANGED mon

Answer(s, resp) ==
    calls' = [calls EXCEPT ![s] = [@ EXCEPT !.pc = "replied", !.resp = resp]]

InFlight(ops) == Cardinality({s \in Slots : calls[s] # Idle /\ calls[s].op \in ops})

\* room left under the bounds for one more insert / one more update:
\* nextId - 1 rows were inserted, and dbClock counts inserts and updates
RoomToInsert == nextId + InFlight({"createUser"}) <= MaxUsers
RoomToUpdate ==
    (dbClock - (nextId - 1)) + InFlight({"updateUser"}) < MaxUpdates

----------------------------------------------------------------------------
(* UserProfileAPI: each call runs to its await, the store answers, and the *)
(* continuation runs to the return                                         *)

EmptyResult == [users |-> <<>>, totalCount |-> 0]

\* (data || []).map(transformUser) and count || 0
ListResult(resp) ==
    [users |-> IF resp.data.isNull THEN <<>>
               ELSE [i \in 1..Len(resp.data.rows) |->
                        TransformUser(resp.data.rows[i])],
     totalCount |-> IF resp.count = <<>> THEN 0 ELSE resp.count[1]]

\* data ? this.transformUser(data) : fallback
UserOrBug(data, fallback) ==
    IF data = NullData THEN NullData ELSE TransformUser(data)
UserOr(data, fallback) ==
    IF data = NullData THEN fallback ELSE TransformUser(data)

\* if (!error) { apiCache.set(cacheKey, result, ttl) }
CacheOnSuccessBug(c, key, result, error, ttl, t) ==
    CacheSet(c, key, result, <<ttl>>, t)
CacheOnSuccess(c, key, result, error, ttl, t) ==
    IF error = NoError THEN CacheSet(c, key, result, <<ttl>>, t) ELSE c

\* getAllUsers, served from the cache
GetAllUsersHit ==
    \E a \in ListArgs :
        LET key == KeyAllUsers(a.page, a.limit)
            cached == CacheGetValue(cache, key, now)
        IN  /\ cached # NullData
            /\ cache' = CacheAfterAccess(cache, key, now)
            /\ CompleteHit(Returned("getAllUsers", a, TRUE, NoResp,
                                    Env(cached, TRUE, Ok.usersFromCache)))
            /\ UNCHANGED <<now, store, nextId, dbClock, ui>>

\* getAllUsers, cache miss: up to the await
GetAllUsersMiss ==
    \E s \in Slots, a \in ListArgs :
        LET key == KeyAllUsers(a.page, a.limit)
        IN  /\ CacheGetValue(cache, key, now) = NullData
            /\ cache' = CacheAfterAccess(cache, key, now)
            /\ Suspend(s, "getAllUsers", a)
            /\ UNCHANGED <<now, store, nextId, dbClock, ui>>

\* getAllUsers: after the await
ResumeGetAllUsers ==
    \E s \in Slots :
        /\ Replied(s, "getAllUsers")
        /\ LET c == calls[s]
               key == KeyAllUsers(c.arg.page, c.arg.limit)
           IN  IF c.resp.thrown # NoThrow
               THEN /\ cache' = cache
                    /\ Complete(s, Returned(c.op, c.arg, FALSE, c.resp,
                          HandleNetworkError(c.resp.thrown, Ctx.getAllUsers,
                                             EmptyResult)))
               ELSE LET result == ListResult(c.resp)
                    IN  /\ cache' = CacheOnSuccess(cache, key, result,
                                                   c.resp.error, ListTTL, now)
                        /\ Complete(s, Returned(c.op, c.arg, FALSE, c.resp,
                              HandleSupabaseResponse(result, c.resp.error,
                                  Ok.usersRetrieved, Ctx.getAllUsers)))
        /\ UNCHANGED <<now, store, nextId, dbClock, ui>>

\* a return from the cache, with a note of the call that returned just
\* before it when that call fetched the same kind of result from the store
HitAfter(r, before) ==
    [op |-> r.op, arg |-> r.arg, hit |-> r.hit, resp |-> r.resp,
     env |-> r.env,
     after |-> IF /\ before # NoRet /\ before.op = r.op
                  /\ ~before.hit /\ before.env.success
               THEN <<before.arg>> ELSE <<>>]

\* searchUsers, served from the cache
SearchUsersHit ==
    \E a \in SearchArgs :
        LET normalizedQuery == Trim(ToLowerCase(a.query))
            key == KeySearchUsers(normalizedQuery, a.page, a.limit)
            cached == CacheGetValue(cache, key, now)
        IN  /\ cached # NullData
            /\ cache' = CacheAfterAccess(cache, key, now)
            /\ CompleteHit(HitAfter(Returned("searchUsers", a, TRUE, NoResp,
                  Env(cached, TRUE,
                      Ok.foundPrefix \o NumText(cached.totalCount)
                          \o Ok.foundCachedSuffix)), ret))
            /\ UNCHANGED <<now, store, nextId, dbClock, ui>>

\* searchUsers, cache miss: up to the await
SearchUsersMiss ==
    \E s \in Slots, a \in SearchArgs :
        LET normalizedQuery == Trim(ToLowerCase(a.query))
            key == KeySearchUsers(normalizedQuery, a.page, a.limit)
        IN  /\ CacheGetValue(cache, key, now) = NullData
            /\ cache' = CacheAfterAccess(cache, key, now)
            /\ Suspend(s, "searchUsers", a)
            /\ UNCHANGED <<now, store, nextId, dbClock, ui>>

\* searchUsers: after the await
ResumeSearchUsers ==
    \E s \in Slots :
        /\ Replied(s, "searchUsers")
        /\ LET c == calls[s]
               normalizedQuery == Trim(ToLowerCase(c.arg.query))
               key == KeySearchUsers(normalizedQuery, c.arg.page, c.arg.limit)
           IN  IF c.resp.thrown # NoThrow
               THEN /\ cache' = cache
                    /\ Complete(s, Returned(c.op, c.arg, FALSE, c.resp,
                          HandleNetworkError(c.resp.thrown, Ctx.searchUsers,
                                             EmptyResult)))
               ELSE LET result == ListResult(c.resp)
                    IN  /\ cache' = CacheOnSuccess(cache, key, result,
                                                   c.resp.error, SearchTTL, now)
                        /\ Complete(s, Returned(c.op, c.arg, FALSE, c.resp,
                              HandleSupabaseResponse(result, c.resp.error,
                                  Ok.foundPrefix \o NumText(result.totalCount)
                                      \o Ok.foundSuffix,
                                  Ctx.searchUsers)))
        /\ UNCHANGED <<now, store, nextId, dbClock, ui>>

\* getUserById: up to the await (no cache on this path)
GetUserByIdCall ==
    \E s \in Slots, id \in Ids :
        /\ Suspend(s, "getUserById", [id |-> id])
        /\ UNCHANGED <<cache, now, store, nextId, dbClock, ui>>

\* getUserById: after the await
ResumeGetUserById ==
    \E s \in Slots :
        /\ Replied(s, "getUserById")
        /\ LET c == calls[s]
           IN  IF c.resp.thrown # NoThrow
               THEN Complete(s, Returned(c.op, c.arg, FALSE, c.resp,
                        HandleNetworkError(c.resp.thrown, Ctx.getUserById,
                                           NullData)))
               ELSE Complete(s, Returned(c.op, c.arg, FALSE, c.resp,
                        HandleSupabaseResponse(UserOr(c.resp.data, NullData),
                            c.resp.error, Ok.userFound, Ctx.getUserById)))
        /\ UNCHANGED <<cache, now, store, nextId, dbClock, ui>>

\* if (!error) { invalidateCache... }: the cache after a mutation returned
InvalidateAlways(error, invalidated, c) == invalidated
InvalidateOnSuccess(error, invalidated, c) ==
    IF error = NoError THEN invalidated ELSE c

\* createUser: up to the await
CreateUserCall ==
    \E s \in Slots, userData \in CreateInputs :
        /\ RoomToInsert
        /\ Suspend(s, "createUser", userData)
        /\ UNCHANGED <<cache, now, store, nextId, dbClock, ui>>

\* createUser: after the await
ResumeCreateUser ==
    \E s \in Slots :
        /\ Replied(s, "createUser")
        /\ LET c == calls[s]
           IN  IF c.resp.thrown # NoThrow
               THEN /\ cache' = cache
                    /\ Complete(s, Returned(c.op, c.arg, FALSE, c.resp,
                          HandleNetworkError(c.resp.thrown, Ctx.createUser,
                                             PlaceholderUser)))
               ELSE /\ cache' = InvalidateOnSuccess(c.resp.error,
                                    InvalidateAllUsers(cache), cache)
                    /\ Complete(s, Returned(c.op, c.arg, FALSE, c.resp,
                          HandleSupabaseResponse(
                              UserOr(c.resp.data, PlaceholderUser),
                              c.resp.error, Ok.userCreated, Ctx.createUser)))
        /\ UNCHANGED <<now, store, nextId, dbClock, ui>>

\* updateUser: up to the await
UpdateUserCall ==
    \E s \in Slots, id \in Ids, userData \in UpdateInputs :
        /\ RoomToUpdate
        /\ Suspend(s, "updateUser", [id |-> id, userData |-> userData])
        /\ UNCHANGED <<cache, now, store, nextId, dbClock, ui>>

\* updateUser: after the await
ResumeUpdateUser ==
    \E s \in Slots :
        /\ Replied(s, "updateUser")
        /\ LET c == calls[s]
           IN  IF c.resp.thrown # NoThrow
               THEN /\ cache' = cache
                    /\ Complete(s, Returned(c.op, c.arg, FALSE, c.resp,
                          HandleNetworkError(c.resp.thrown, Ctx.updateUser,
                                             PlaceholderUser)))
               ELSE /\ cache' = InvalidateOnSuccess(c.resp.error,
                                    InvalidateUserById(
                                        InvalidateAllUsers(cache), c.arg.id),
                                    cache)
                    /\ Complete(s, Returned(c.op, c.arg, FALSE, c.resp,
                          HandleSupabaseResponse(
                              UserOr(c.resp.data, PlaceholderUser),
                              c.resp.error, Ok.userUpdated, Ctx.updateUser)))
        /\ UNCHANGED <<now, store, nextId, dbClock, ui>>

\* deleteUser: up to the await
DeleteUserCall ==
    \E s \in Slots, id \in Ids :
        /\ Suspend(s, "deleteUser", [id |-> id])
        /\ UNCHANGED <<cache, now, store, nextId, dbClock, ui>>

\* deleteUser: after the await
ResumeDeleteUser ==
    \E s \in Slots :
        /\ Replied(s, "deleteUser")
        /\ LET c == calls[s]
           IN  IF c.resp.thrown # NoThrow
               THEN /\ cache' = cache
                    /\ Complete(s, Returned(c.op, c.arg, FALSE, c.resp,
                          HandleNetworkError(c.resp.thrown, Ctx.deleteUser,
                                             FALSE)))
               ELSE /\ cache' = InvalidateOnSuccess(c.resp.error,
                                    InvalidateUserById(
                                        InvalidateAllUsers(cache), c.arg.id),
                                    cache)
                    /\ Complete(s, Returned(c.op, c.arg, FALSE, c.resp,
                          HandleSupabaseResponse(TRUE, c.resp.error,
                              Ok.userDeleted, Ctx.deleteUser)))
        /\ UNCHANGED <<now, store, nextId, dbClock, ui>>

----------------------------------------------------------------------------
(* The store answering the requests in flight *)

\* const from = (page - 1) * limit; const to = from + limit - 1
RangeFromBug(page, limit) == page * limit
RangeFrom(page, limit) == (page - 1) * limit
RangeTo(page, limit) == RangeFrom(page, limit) + limit - 1

\* .range(from, to) with count: 'exact': a range that starts beyond the last
\* row is answered with the empty page or refused (416), by the server's
\* version
RangeReplies(reply, from) ==
    IF reply.error = NoError /\ from > 0 /\ from >= reply.count[1]
    THEN {reply, Reply(NullRows, ErrBadRange, <<>>)}
    ELSE {reply}

StoreSelectAll ==
    \E s \in Slots :
        /\ Sent(s, "getAllUsers")
        /\ LET a == calls[s].arg
           IN  \E reply \in RangeReplies(
                       SelectRange(store, RangeFrom(a.page, a.limit),
                                   RangeTo(a.page, a.limit)),
                       RangeFrom(a.page, a.limit)) :
                   Answer(s, reply)
        /\ UNCHANGED <<cache, now, store, nextId, dbClock, ret, mon, ui>>

StoreSearch ==
    \E s \in Slots :
        /\ Sent(s, "searchUsers")
        /\ LET a == calls[s].arg
               normalizedQuery == Trim(ToLowerCase(a.query))
           IN  \E reply \in RangeReplies(
                       SearchReply(store, normalizedQuery,
                                   RangeFrom(a.page, a.limit),
                                   RangeTo(a.page, a.limit)),
                       RangeFrom(a.page, a.limit)) :
                   Answer(s, reply)
        /\ UNCHANGED <<cache, now, store, nextId, dbClock, ret, mon, ui>>

StoreSelectSingle ==
    \E s \in Slots :
        /\ Sent(s, "getUserById")
        /\ Answer(s, SingleResult(store, RowsWithId(store, calls[s].arg.id)))
        /\ UNCHANGED <<cache, now, store, nextId, dbClock, ret, mon, ui>>

\* INSERT ... RETURNING: refused when the email is taken (UNIQUE)
StoreInsert ==
    \E s \in Slots :
        /\ Sent(s, "createUser")
        /\ LET insertData == InsertData(calls[s].arg)
           IN  IF EmailTaken(store, insertData.email, 0)
               THEN /\ Answer(s, Reply(NullData, ErrDuplicateEmail, <<>>))
                    /\ UNCHANGED <<store, nextId, dbClock>>
               ELSE /\ store' = Append(store,
                            InsertedRow(insertData, nextId, dbClock + 1))
                    /\ nextId' = nextId + 1
                    /\ dbClock' = dbClock + 1
                    /\ Answer(s, SingleResult(store',
                                     RowsWithId(store', nextId)))
        /\ UNCHANGED <<cache, now, ret, mon, ui>>

\* UPDATE ... WHERE id = ... RETURNING
StoreUpdate ==
    \E s \in Slots :
        /\ Sent(s, "updateUser")
        /\ LET id == calls[s].arg.id
               updateData == UpdateData(calls[s].arg.userData)
               idx == RowsWithId(store, id)
           IN  IF idx = {}
               THEN /\ Answer(s, SingleResult(store, idx))
                    /\ UNCHANGED <<store, dbClock>>
               ELSE IF "email" \in DOMAIN updateData
                       /\ EmailTaken(store, updateData["email"], id)
               THEN /\ Answer(s, Reply(NullData, ErrDuplicateEmail, <<>>))
                    /\ UNCHANGED <<store, dbClock>>
               ELSE /\ store' = [i \in 1..Len(store) |->
                                    IF i \in idx
                                    THEN UpdatedRow(store[i], updateData,
                                                    dbClock + 1)
                                    ELSE store[i]]
                    /\ dbClock' = dbClock + 1
                    /\ Answer(s, SingleResult(store', idx))
        /\ UNCHANGED <<cache, now, nextId, ret, mon, ui>>

\* DELETE ... WHERE id = ... : no error when no row matches
StoreDelete ==
    \E s \in Slots :
        /\ Sent(s, "deleteUser")
        /\ store' = Keep(store, {i \in 1..Len(store) :
                                    store[i].id # calls[s].arg.id})
        /\ Answer(s, Reply(NullData, NoError, <<>>))
        /\ UNCHANGED <<cache, now, nextId, dbClock, ret, mon, ui>>

\* the store refuses the request with a structured error: data and count
\* are null
StoreError ==
    \E s \in Slots, e \in InjectedErrors :
        /\ calls[s] # Idle /\ calls[s].pc = "sent"
        /\ Answer(s, Reply(IF calls[s].op \in {"getAllUsers", "searchUsers"}
                           THEN NullRows ELSE NullData, e, <<>>))
        /\ UNCHANGED <<cache, now, store, nextId, dbClock, ret, mon, ui>>

\* the request fails in transport: the awaited call throws
StoreThrow ==
    \E s \in Slots, e \in InjectedThrows :
        /\ calls[s] # Idle /\ calls[s].pc = "sent"
        /\ Answer(s, ReplyThrown(e))
        /\ UNCHANGED <<cache, now, store, nextId, dbClock, ret, mon, ui>>

\* time passes
Tick ==
    /\ now + TickStep <= MaxTicks * TickStep
    /\ now' = now + TickStep
    /\ UNCHANGED <<cache, store, nextId, dbClock, calls, ret, mon, ui>>

\* setInterval(() => apiCache.cleanup(), ...)
Sweep ==
    /\ cache' = CacheCleanup(cache, now)
    /\ UNCHANGED <<now, store, nextId, dbClock, calls, ret, mon, ui>>

Init ==
    /\ cache = <<>>
    /\ now = 0
    /\ store = <<>>
    /\ nextId = 1
    /\ dbClock = 0
    /\ calls = <<Idle>>
    /\ ret = NoRet
    /\ mon = MonIdle
    /\ ui = NoUI

Next ==
    \/ GetAllUsersHit \/ GetAllUsersMiss \/ ResumeGetAllUsers
    \/ SearchUsersHit \/ SearchUsersMiss \/ ResumeSearchUsers
    \/ GetUserByIdCall \/ ResumeGetUserById
    \/ CreateUserCall \/ ResumeCreateUser
    \/ UpdateUserCall \/ ResumeUpdateUser
    \/ DeleteUserCall \/ ResumeDeleteUser
    \/ StoreSelectAll \/ StoreSearch \/ StoreSelectSingle
    \/ StoreInsert \/ StoreUpdate \/ StoreDelete
    \/ StoreError \/ StoreThrow
    \/ Tick \/ Sweep

Spec == Init /\ [][Next]_vars

----------------------------------------------------------------------------
(* Claims about the facade *)

FacadeOps ==
    {"getAllUsers", "getUserById", "createUser", "updateUser", "deleteUser",
     "searchUsers"}
Mutations == {"createUser", "updateUser", "deleteUser"}

IsListOrSearchKey(k) ==
    StartsWith(k, Pfx.all) \/ StartsWith(k, Pfx.search)

\* the continuation of call s runs in this step and returns success
ReturnsSuccess(s, ops) ==
    /\ calls[s] # Idle /\ calls[s].op \in ops /\ calls[s].pc = "replied"
    /\ calls'[s] = Idle
    /\ ret'.env.success

\* the store answered by itself: neither a thrown nor an injected error
StoreAnswered(resp) ==
    resp # NoResp /\ resp.thrown = NoThrow /\ resp.error \notin InjectedErrors

\* C1: when createUser, updateUser or deleteUser returns success, every list
\* and search entry the cache held is unreachable through get, every
\* getAllUsers / searchUsers is a miss, and after updateUser(id) and
\* deleteUser(id) so is the users:id:<id> entry.
Invalidation_C1 ==
    [][\A s \in Slots :
          ReturnsSuccess(s, Mutations) =>
              /\ \A k \in DOMAIN cache :
                    IsListOrSearchKey(k) =>
                        CacheGetValue(cache', k, now') = NullData
              /\ \A a \in ListArgs :
                    CacheGetValue(cache', KeyAllUsers(a.page, a.limit), now')
                        = NullData
              /\ \A a \in SearchArgs :
                    CacheGetValue(cache',
                        KeySearchUsers(Trim(ToLowerCase(a.query)), a.page,
                                       a.limit), now') = NullData
              /\ calls[s].op \in {"updateUser", "deleteUser"} =>
                    CacheGetValue(cache', KeyUserById(calls[s].arg.id), now')
                        = NullData]_vars

\* C1 witness: a createUser has just returned success, the list of page 1
\* was cached and live before it, and is no longer in the cache
Invalidation_C1_Witness ==
    /\ ret.op = "createUser" /\ ret.env.success
    /\ mon.stage = 1 /\ mon.cachedBefore
    /\ KeyAllUsers(1, DefaultLimit) \notin DOMAIN cache

\* C4 as claimed: getUserById for an id that matches no record returns a
\* null payload and is not reported as a failure.
NotFound_C4_Claim ==
    (ret.op = "getUserById" /\ StoreAnswered(ret.resp)
     /\ ret.resp.matched = 0) =>
        (ret.env.data = NullData /\ ret.env.success)

\* what the code returns instead: a null payload with success = false and
\* the message "Record not found."
NotFound_Returned ==
    (ret.op = "getUserById" /\ StoreAnswered(ret.resp)
     /\ ret.resp.matched = 0) =>
        ret.env = Env(NullData, FALSE, ErrorMapMessage("PGRST116"))

\* C4 witness: a lookup of an id that is not in a non-empty table
NotFound_C4_Witness ==
    /\ ret.op = "getUserById" /\ StoreAnswered(ret.resp)
    /\ ret.resp.matched = 0
    /\ store # <<>>
    /\ \A i \in 1..Len(store) : store[i].id # ret.arg.id

\* C5: every facade call ends by returning an envelope {data, success,
\* message}; success is false whenever the store returned an error or the
\* call threw, and true exactly when the store call completed without error
\* or the result came from the cache.
Envelope_C5 ==
    ret.op \in FacadeOps =>
        /\ DOMAIN ret.env = {"data", "success", "message"}
        /\ ret.env.success \in BOOLEAN
        /\ ret.env.success <=>
              (ret.hit \/ (ret.resp.thrown = NoThrow
                           /\ ret.resp.error = NoError))

\* C5 witness: an updateUser whose store call threw has returned
Envelope_C5_Witness ==
    /\ ret.op = "updateUser"
    /\ ret.resp.thrown # NoThrow
    /\ ~ret.env.success

\* C6: a failed getAllUsers / searchUsers returns {users: [], totalCount: 0}
\* and a failed createUser / updateUser returns a placeholder record, never
\* null.
Placeholder_C6 ==
    (ret.op \in FacadeOps /\ ~ret.env.success) =>
        /\ ret.op \in {"getAllUsers", "searchUsers"} =>
              ret.env.data = [users |-> <<>>, totalCount |-> 0]
        /\ ret.op \in {"createUser", "updateUser"} =>
              ret.env.data = [placeholder |-> TRUE]

\* C6 witness: a createUser the store refused for a duplicate email has
\* returned its placeholder
Placeholder_C6_Witness ==
    /\ ret.op = "createUser" /\ ~ret.env.success
    /\ ret.resp.error = ErrDuplicateEmail
    /\ ret.env.data # NullData

\* C7: createUser twice with the same email: the first returns success with
\* an id the store generated, the second returns success = false with the
\* email conflict message, and a getAllUsers(1, 20) issued afterwards is a
\* cache miss listing exactly one record with that email.
Scenario_C7 ==
    /\ mon.stage >= 1 => mon.id \in 1..(nextId - 1)
    /\ mon.stage >= 2 =>
          /\ ~mon.second.success
          /\ mon.second.message = Msg.emailExists
    /\ mon.stage = 3 =>
          /\ ~mon.hit
          /\ Len(mon.listed) = 1
          /\ mon.listed[1].id = mon.id

\* C7 witness: the scenario ran to its end, and getAllUsers(1, 20) was
\* cached before the first create
Scenario_C7_Witness ==
    /\ mon.stage = 3
    /\ mon.cachedBefore
    /\ ret.op = "getAllUsers"

\* what updateUser's input asks column col of a row to become
AskedValue(row, userData, col) ==
    LET v == userData[FieldOf(col)]
    IN  IF v = Undefined THEN row[col]
        ELSE IF col \in OptionalColumns /\ v = <<>> THEN Null
        ELSE v

\* C10: an update the store accepts writes exactly the columns whose fields
\* are present: an omitted field keeps its value, an optional field given as
\* "" becomes null, and nothing else changes apart from updated_at; an update
\* the store refuses changes nothing.
UpdateFrame_C10 ==
    [][\A s \in Slots :
          (Sent(s, "updateUser") /\ calls'[s] # Idle
           /\ calls'[s].pc = "replied" /\ StoreAnswered(calls'[s].resp)) =>
              LET a == calls[s].arg
              IN  IF calls'[s].resp.error # NoError THEN store' = store
                  ELSE /\ Len(store') = Len(store)
                       /\ \A i \in 1..Len(store) :
                             IF store[i].id = a.id
                             THEN /\ \A col \in Columns :
                                        store'[i][col] =
                                            AskedValue(store[i], a.userData,
                                                       col)
                                  /\ store'[i].id = store[i].id
                                  /\ store'[i].created_at
                                         = store[i].created_at
                             ELSE store'[i] = store[i]]_vars

\* C10 witness: an update that cleared fullName, bio and phoneNumber has
\* returned, and the row still has the location it was created with
UpdateFrame_C10_Witness ==
    /\ ret.op = "updateUser" /\ ret.env.success
    /\ ret.arg.userData =
          [NoFields EXCEPT !.fullName = <<>>, !.bio = <<>>,
                           !.phoneNumber = <<>>]
    /\ \E i \in 1..Len(store) :
          /\ store[i].id = ret.arg.id
          /\ store[i].full_name = <<>>
          /\ store[i].bio = Null
          /\ store[i].phone_number = Null
          /\ store[i].location = Sample.loc1
          /\ store[i].updated_at > store[i].created_at

----------------------------------------------------------------------------
(* Round trip of a row through transformUser and the write mappings *)

\* rows the schema admits: full_name and email are NOT NULL, an optional
\* column is null, empty or a text
ValidRows ==
    {InsertedRow(d, 1, 0) :
        d \in [full_name : {Sample.nameAnn, <<>>},
               email : {Sample.mailA},
               phone_number : {Null, <<>>, Sample.phone1},
               bio : {Null, <<>>, Sample.bio1},
               avatar_url : {Null, <<>>, Sample.avatar1},
               date_of_birth : {Null, Sample.dob1},
               location : {Null, <<>>, Sample.loc1}]}

\* the fields of a User that the form hands back to createUser / updateUser
FormOf(user) == [f \in {FieldOf(c) : c \in Columns} |-> user[f]]

InitRoundTrip ==
    /\ cache = <<>> /\ now = 0
    /\ store \in {<<row>> : row \in ValidRows}
    /\ nextId = 2 /\ dbClock = 0
    /\ calls = <<>>
    /\ ret = NoRet
    /\ mon = MonIdle
    /\ ui = NoUI

RoundTrip ==
    /\ ret = NoRet
    /\ LET user == TransformUser(store[1])
       IN  ret' = [op |-> "roundTrip", row |-> store[1], user |-> user,
                   insertData |-> InsertData(FormOf(user)),
                   updateData |-> UpdateData(FormOf(user))]
    /\ UNCHANGED <<cache, now, facadeVars>>

SpecRoundTrip == InitRoundTrip /\ [][RoundTrip]_vars

----------------------------------------------------------------------------
(* searchUsers against a table of one row, for a range of query texts *)

SearchQueries ==
    {<<>>, <<"a">>, <<"A">>, <<"n", "N">>, <<"x">>, <<" ", "a">>,
     <<"a", "n", " ">>, <<"_">>, <<"%">>, <<"*">>, <<"a", "_", "n">>,
     <<"a", "%", "n">>, <<"a", ",", "b">>, <<"0", "%">>}

SearchRows ==
    {InsertedRow(d, 1, 0) :
        d \in [full_name : {Sample.nameAnn, Sample.nameBob, <<"a", "_", "n">>},
               email : {Sample.mailA, Sample.mailB},
               phone_number : {Null},
               bio : {Null, Sample.bio1, <<"1", "0", "0", "%">>},
               avatar_url : {Null},
               date_of_birth : {Null},
               location : {Null, Sample.loc1, <<"a", ",", "b">>}]}

InitSearch ==
    /\ cache = <<>> /\ now = 0
    /\ store \in {<<row>> : row \in SearchRows}
    /\ nextId = 2 /\ dbClock = 0
    /\ calls = <<>>
    /\ ret = NoRet
    /\ mon = MonIdle
    /\ ui = NoUI

\* searchUsers(query, 1, 20) on a cache miss, from the call to the return
SearchOnce ==
    \E query \in SearchQueries :
        /\ ret = NoRet
        /\ LET normalizedQuery == Trim(ToLowerCase(query))
               resp == SearchReply(store, normalizedQuery,
                                   RangeFrom(1, DefaultLimit),
                                   RangeTo(1, DefaultLimit))
               result == ListResult(resp)
           IN  ret' = [op |-> "search", query |-> query, resp |-> resp,
                       env |-> HandleSupabaseResponse(result, resp.error,
                                  Ok.foundPrefix \o NumText(result.totalCount)
                                      \o Ok.foundSuffix,
                                  Ctx.searchUsers)]
        /\ UNCHANGED <<cache, now, facadeVars>>

SpecSearch == InitSearch /\ [][SearchOnce]_vars

\* the query text, whatever its case, is a substring of one of the record's
\* fullName, email, location, bio
IsSubstringOfField(user, query) ==
    \E f \in {"fullName", "email", "location", "bio"} :
        Includes(ToLowerCase(user[f]), ToLowerCase(query))

\* C12 as claimed: for every query text, a record is returned by searchUsers
\* if and only if the text, compared case-insensitively, is a substring of
\* one of its fullName, email, location, bio.
Search_C12_Claim ==
    ret.op = "search" =>
        (Len(ret.env.data.users) = 1
            <=> IsSubstringOfField(TransformUser(store[1]), ret.query))

\* what holds instead: the same equivalence for the trimmed query, when it
\* holds none of % * _ , ( )
Search_Plain ==
    (/\ ret.op = "search"
     /\ \A i \in 1..Len(ret.query) :
           ret.query[i] \notin {"%", "*", "_"} \cup ReservedChars) =>
        /\ ret.env.success
        /\ Len(ret.env.data.users) = 1
              <=> IsSubstringOfField(TransformUser(store[1]), Trim(ret.query))

\* C12 witness: the query "_" has returned a record none of whose fields
\* holds an underscore
Search_C12_Witness ==
    /\ ret.op = "search" /\ ret.query = <<"_">>
    /\ ret.env.success /\ Len(ret.env.data.users) = 1
    /\ ~IsSubstringOfField(TransformUser(store[1]), ret.query)

----------------------------------------------------------------------------
(* Pagination                                                              *)

\* the rows the filter of a list or search call selects, newest first
Selected(op, arg) ==
    NewestFirst(
        IF op = "searchUsers"
        THEN Keep(store, {i \in 1..Len(store) :
                 SearchMatches(store[i], Trim(ToLowerCase(arg.query)))})
        ELSE store)

\* the users on page p of size s of the selected rows: rows (p-1)*s to
\* (p-1)*s + s - 1, counted from 0
OnPage(r) ==
    LET rows == Selected(r.op, r.arg)
        from == (r.arg.page - 1) * r.arg.limit
        to == (r.arg.page - 1) * r.arg.limit + r.arg.limit - 1
        last == IF to + 1 < Len(rows) THEN to + 1 ELSE Len(rows)
    IN  [i \in 1..(IF last > from THEN last - from ELSE 0) |->
            TransformUser(rows[from + i])]

\* a list or search call has returned and no call is in flight: the store
\* is as the returned call found it, or as its cache entry's call found it
ListReturned ==
    /\ ret # NoRet /\ ret.op \in {"getAllUsers", "searchUsers"}
    /\ \A s \in Slots : calls[s] = Idle

\* C13 as claimed: every envelope returned by getAllUsers or searchUsers,
\* from the store or from the cache, carries the number of selected rows
\* as totalCount, whatever the page.
Pagination_C13_Claim ==
    ListReturned => ret.env.data.totalCount = Len(Selected(ret.op, ret.arg))

\* C13: every successful envelope returned by getAllUsers or searchUsers
\* for page p of size s, from the store or from the cache, holds the
\* selected rows (p-1)*s to (p-1)*s + s - 1 and, as totalCount, the number
\* of selected rows, whatever the page; a failed call returns totalCount 0.
Pagination_C13 ==
    ListReturned =>
        IF ret.env.success
        THEN /\ ret.env.data.totalCount = Len(Selected(ret.op, ret.arg))
             /\ ret.env.data.users = OnPage(ret)
        ELSE ret.env.data.totalCount = 0

\* C13 witnesses: page 2 of size 1 was fetched from a store of two rows and
\* holds the older row with totalCount 2; the same page was refused by a
\* store of one row and came back as a failure with totalCount 0
Pagination_C13_Witness ==
    /\ ret # NoRet /\ ret.op = "getAllUsers" /\ ~ret.hit
    /\ ret.arg = [page |-> 2, limit |-> 1]
    /\ ret.env.success
    /\ Len(store) = 2
    /\ ret.env.data.totalCount = 2
    /\ Len(ret.env.data.users) = 1
    /\ ret.env.data.users[1].id = NewestFirst(store)[2].id

Pagination_C13_Refused ==
    /\ ret # NoRet /\ ret.op = "getAllUsers"
    /\ ret.arg = [page |-> 2, limit |-> 1]
    /\ ~ret.env.success
    /\ ret.resp.thrown = NoThrow /\ ret.resp.error = ErrBadRange
    /\ Len(store) = 1
    /\ ret.env.data.totalCount = 0

----------------------------------------------------------------------------
(* The list and search cache is filled on success only                     *)

\* the cache key of a list or search call
ListKey(op, arg) ==
    IF op = "searchUsers"
    THEN KeySearchUsers(Trim(ToLowerCase(arg.query)), arg.page, arg.limit)
    ELSE KeyAllUsers(arg.page, arg.limit)

\* the entry under key k is written in this step
Written(k) ==
    k \in DOMAIN cache' /\ (k \in DOMAIN cache => cache'[k] # cache[k])

\* C14: a list or search call queries the store only after the cache has
\* answered with nothing for its key, and returns from the cache otherwise;
\* an entry under a list or search key is written exactly by the
\* continuation of a call for that key whose store query returned without
\* error and did not throw, and it holds that query's rows and count with
\* the time of the write; after an error or a throw the cache is left as
\* it is.
CacheFill_C14 ==
    [][/\ \A s \in Slots :
             (calls[s] = Idle /\ calls'[s] # Idle
                 /\ calls'[s].op \in {"getAllUsers", "searchUsers"}) =>
                 CacheGetValue(cache, ListKey(calls'[s].op, calls'[s].arg),
                               now) = NullData
       /\ (ret' # NoRet /\ ret' # ret
             /\ ret'.op \in {"getAllUsers", "searchUsers"} /\ ret'.hit) =>
             /\ calls' = calls
             /\ ret'.env.data =
                    CacheGetValue(cache, ListKey(ret'.op, ret'.arg), now)
       /\ \A k \in DOMAIN cache' :
             (IsListOrSearchKey(k) /\ Written(k)) =>
                 \E s \in Slots :
                     /\ calls[s] # Idle /\ calls[s].pc = "replied"
                     /\ calls'[s] = Idle
                     /\ calls[s].op \in {"getAllUsers", "searchUsers"}
                     /\ k = ListKey(calls[s].op, calls[s].arg)
                     /\ calls[s].resp.thrown = NoThrow
                     /\ calls[s].resp.error = NoError
                     /\ cache'[k].data = ListResult(calls[s].resp)
                     /\ cache'[k].timestamp = now
       /\ \A s \in Slots :
             (/\ calls[s] # Idle /\ calls[s].pc = "replied"
              /\ calls'[s] = Idle
              /\ calls[s].op \in {"getAllUsers", "searchUsers"}) =>
                 IF /\ calls[s].resp.thrown = NoThrow
                    /\ calls[s].resp.error = NoError
                 THEN /\ ret'.env.success
                      /\ Written(ListKey(calls[s].op, calls[s].arg))
                 ELSE /\ ~ret'.env.success
                      /\ cache' = cache]_vars

\* C14 witness: getAllUsers(1, 20) has failed on a store error over a
\* store that holds a user, nothing is cached for it, and an entry of an
\* earlier successful call is still cached
CacheFill_C14_Witness ==
    /\ ret # NoRet /\ ret.op = "getAllUsers" /\ ~ret.hit
    /\ ret.resp.thrown = NoThrow /\ ret.resp.error # NoError
    /\ ~ret.env.success
    /\ store # <<>>
    /\ ListKey(ret.op, ret.arg) \notin DOMAIN cache
    /\ \E k \in DOMAIN cache : IsListOrSearchKey(k)

----------------------------------------------------------------------------
(* How long a cached list or search result is served                       *)

\* the time a result cached under key k is served for
ServedFor(k) == IF StartsWith(k, Pfx.search) THEN 2 * Minute ELSE 3 * Minute

\* the entry under key k is there and not older than its time
Live(k) == k \in DOMAIN cache /\ now - cache[k].timestamp <= ServedFor(k)

\* C15: a list entry is kept for 3 minutes and a search entry for 2 from
\* the time it was written, and until then only the return of a successful
\* mutation removes it, and only a new successful fetch of its key replaces
\* it; a getAllUsers or searchUsers call that finds the entry of its key not
\* older than that returns the entry's payload with success = true without
\* a store query, and a call that finds it older, or finds none, queries
\* the store.
Fresh_C15 ==
    [][/\ \A k \in DOMAIN cache :
             IsListOrSearchKey(k) =>
                 /\ cache[k].ttl = ServedFor(k)
                 /\ k \notin DOMAIN cache' =>
                        \/ ~Live(k)
                        \/ \E s \in Slots : ReturnsSuccess(s, Mutations)
                 /\ k \in DOMAIN cache' =>
                        \/ cache'[k] = cache[k]
                        \/ cache'[k].timestamp = now
       /\ (ret' # NoRet /\ ret' # ret
             /\ ret'.op \in {"getAllUsers", "searchUsers"} /\ ret'.hit) =>
             /\ Live(ListKey(ret'.op, ret'.arg))
             /\ ret'.env.data = cache[ListKey(ret'.op, ret'.arg)].data
             /\ ret'.env.success
             /\ calls' = calls
       /\ \A s \in Slots :
             (calls[s] = Idle /\ calls'[s] # Idle
                 /\ calls'[s].op \in {"getAllUsers", "searchUsers"}) =>
                 /\ ~Live(ListKey(calls'[s].op, calls'[s].arg))
                 /\ calls'[s].pc = "sent"]_vars

\* C15 witnesses: getAllUsers(1, 20) was served from an entry written two
\* minutes earlier; searchUsers was served from an entry written exactly
\* two minutes earlier
Fresh_C15_Witness ==
    /\ ret # NoRet /\ ret.op = "getAllUsers" /\ ret.hit
    /\ ret.arg = [page |-> 1, limit |-> DefaultLimit]
    /\ ret.env.success /\ ret.env.data.totalCount > 0
    /\ ListKey(ret.op, ret.arg) \in DOMAIN cache
    /\ now - cache[ListKey(ret.op, ret.arg)].timestamp = 2 * Minute

Fresh_C15_Search ==
    /\ ret # NoRet /\ ret.op = "searchUsers" /\ ret.hit
    /\ ret.env.success /\ ret.env.data.totalCount > 0
    /\ ListKey(ret.op, ret.arg) \in DOMAIN cache
    /\ now - cache[ListKey(ret.op, ret.arg)].timestamp = 2 * Minute

----------------------------------------------------------------------------
(* Search queries that differ in case or in outer whitespace               *)

\* q without i leading and j trailing characters, all of them spaces
Stripped(q, i, j) == SubSeq(q, i + 1, Len(q) - j)
OuterSpaces(q, i, j) ==
    /\ i + j <= Len(q)
    /\ \A n \in 1..Len(q) : (n <= i \/ n > Len(q) - j) => q[n] = " "

\* two texts of the same letters, whatever their case
SameLetters(t1, t2) ==
    /\ Len(t1) = Len(t2)
    /\ \A n \in 1..Len(t1) : ToLowerChar(t1[n]) = ToLowerChar(t2[n])

\* the queries differ at most in letter case and leading/trailing spaces
DifferInCaseOrSpace(q1, q2) ==
    \E i1, j1 \in 0..Len(q1), i2, j2 \in 0..Len(q2) :
        /\ OuterSpaces(q1, i1, j1) /\ OuterSpaces(q2, i2, j2)
        /\ SameLetters(Stripped(q1, i1, j1), Stripped(q2, i2, j2))

\* C16: while the result a successful searchUsers call fetched is still
\* within its time in the cache and nothing has been called since, a
\* searchUsers call with the same page and size whose query differs from
\* the first at most in letter case and leading/trailing whitespace has the
\* same cache key, queries no store and returns success with the payload
\* the first returned.
Normalised_C16 ==
    [][(/\ ret # NoRet /\ ret.op = "searchUsers" /\ ret.env.success
        /\ Live(ListKey(ret.op, ret.arg))) =>
          /\ \A a \in SearchArgs :
                (/\ DifferInCaseOrSpace(ret.arg.query, a.query)
                 /\ a.page = ret.arg.page /\ a.limit = ret.arg.limit) =>
                    ListKey("searchUsers", a) = ListKey(ret.op, ret.arg)
          /\ \A s \in Slots :
                (/\ calls[s] = Idle /\ calls'[s] # Idle
                 /\ calls'[s].op = "searchUsers"
                 /\ calls'[s].arg.page = ret.arg.page
                 /\ calls'[s].arg.limit = ret.arg.limit) =>
                    ~DifferInCaseOrSpace(ret.arg.query, calls'[s].arg.query)
          /\ (/\ ret' # NoRet /\ ret' # ret /\ ret'.op = "searchUsers"
              /\ ret'.arg.page = ret.arg.page
              /\ ret'.arg.limit = ret.arg.limit
              /\ DifferInCaseOrSpace(ret.arg.query, ret'.arg.query)) =>
                 /\ ret'.hit /\ ret'.env.success
                 /\ ret'.env.data = ret.env.data
                 /\ calls' = calls]_vars

\* C16 witness: searchUsers(" A") was served from the cache right after
\* searchUsers("a") had fetched a user from the store, two minutes earlier
Normalised_C16_Witness ==
    /\ ret # NoRet /\ ret.op = "searchUsers" /\ ret.hit
    /\ ret.arg.query = <<" ", "A">>
    /\ ret.after = <<[query |-> <<"a">>, page |-> 1, limit |-> DefaultLimit]>>
    /\ ret.env.data.totalCount > 0
    /\ now - cache[ListKey(ret.op, ret.arg)].timestamp = 2 * Minute

----------------------------------------------------------------------------
(* id and createdAt are fixed at creation                                  *)

StoreKept == {"id", "created_at", "updated_at"}

\* the users a successful return has read back from the store
ReadBack(r) ==
    IF r = NoRet \/ ~r.env.success THEN {}
    ELSE IF r.op \in {"getAllUsers", "searchUsers"}
    THEN {r.env.data.users[i] : i \in 1..Len(r.env.data.users)}
    ELSE IF r.op \in {"getUserById", "createUser", "updateUser"}
    THEN {r.env.data}
    ELSE {}

\* C17: the payloads createUser and updateUser write hold none of id,
\* created_at, updated_at; a step that adds a record leaves the records
\* there as they are and gives the new one an id of the store's own that no
\* record had before; a step that adds none leaves every remaining
\* record's id and created_at as they were; and every user read back has
\* updatedAt >= createdAt and the id and createdAt of a stored record.
Immutable_C17 ==
    [][/\ \A s \in Slots :
             /\ (calls'[s] # Idle /\ calls'[s].op = "createUser") =>
                    DOMAIN InsertData(calls'[s].arg) \cap StoreKept = {}
             /\ (calls'[s] # Idle /\ calls'[s].op = "updateUser") =>
                    DOMAIN UpdateData(calls'[s].arg.userData) \cap StoreKept
                        = {}
       /\ Len(store') > Len(store) =>
             /\ SubSeq(store', 1, Len(store)) = store
             /\ Len(store') = Len(store) + 1
             /\ store'[Len(store')].id = nextId
             /\ nextId' > nextId
             /\ \A i \in 1..Len(store) : store[i].id < nextId
             /\ store'[Len(store')].updated_at
                    = store'[Len(store')].created_at
       /\ Len(store') = Len(store) =>
             \A i \in 1..Len(store) :
                 /\ store'[i].id = store[i].id
                 /\ store'[i].created_at = store[i].created_at
                 /\ store'[i].updated_at >= store[i].updated_at
       /\ Len(store') < Len(store) =>
             \A i \in 1..Len(store') : \E j \in 1..Len(store) :
                 store'[i] = store[j]
       /\ \A u \in ReadBack(ret') :
             /\ u.updatedAt >= u.createdAt
             /\ ret'.op \in {"createUser", "updateUser", "getUserById"} =>
                    \E i \in 1..Len(store') :
                        /\ store'[i].id = u.id
                        /\ store'[i].created_at = u.createdAt
             /\ ret'.op \in {"updateUser", "getUserById"} =>
                    u.id = ret'.arg.id]_vars

\* C17 witness: updateUser has returned the record it updated, with the id
\* it was created with, its createdAt, and a later updatedAt
Immutable_C17_Witness ==
    /\ ret # NoRet /\ ret.op = "updateUser" /\ ret.env.success
    /\ ret.env.data.id = ret.arg.id
    /\ ret.env.data.updatedAt > ret.env.data.createdAt
    /\ \E i \in 1..Len(store) :
          /\ store[i].id = ret.arg.id
          /\ store[i].created_at = ret.env.data.createdAt
          /\ store[i].updated_at = ret.env.data.updatedAt

----------------------------------------------------------------------------
(* The App component: its state and its handlers, each running to the      *)
(* await of a facade call and on from there, one handler at a time         *)

NoReq == [op |-> "none"]

\* loadUsers up to its await
StartLoad(u) ==
    [u EXCEPT !.pc = "loadUsers",
              !.req = [op |-> "getAllUsers",
                       arg |-> [page |-> u.currentPage, limit |-> DefaultLimit]],
              !.isLoading = TRUE,
              !.hasLoadError = FALSE]

\* handleSearch(query) up to its await
StartSearch(u, query) ==
    IF Trim(query) = <<>>
    THEN StartLoad([u EXCEPT !.searchQuery = query])
    ELSE [u EXCEPT !.pc = "handleSearch",
                   !.req = [op |-> "searchUsers",
                            arg |-> [query |-> query, page |-> u.currentPage,
                                     limit |-> DefaultLimit]],
                   !.searchQuery = query]

\* the component after its first render and its mount effect: useState's
\* initial values, and loadUsers at its await. after, loaded and created
\* are notes for the properties: the successful mutation of the running or
\* last handler, what its list call returned, and the ids this browser
\* created and did not ask to delete
Mounted ==
    StartLoad([pc |-> "idle", req |-> NoReq,
               filteredUsers |-> <<>>, totalCount |-> 0, currentPage |-> 1,
               isLoading |-> TRUE, hasLoadError |-> FALSE,
               searchQuery |-> <<>>,
               after |-> NoRet, loaded |-> NoRet, first |-> TRUE,
               created |-> {}])

\* UserProfileList shows the cards of filteredUsers unless it shows the
\* spinner or the error panel
ShowsList(u) == ~u.isLoading /\ ~u.hasLoadError
ShownIds(u) ==
    IF ShowsList(u)
    THEN {u.filteredUsers[i].id : i \in 1..Len(u.filteredUsers)}
    ELSE {}

UIQueries == {<<>>, <<"a">>}

\* a handler starts: nothing has returned to it yet
Handle(u) ==
    /\ ui.pc = "idle"
    /\ ui' = [u EXCEPT !.after = NoRet, !.loaded = NoRet]
    /\ ret' = NoRet
    /\ UNCHANGED <<cache, now, store, nextId, dbClock, calls, mon>>

\* the search box changes
HandleSearch == \E query \in UIQueries : Handle(StartSearch(ui, query))

\* Save in the form, for a new profile or for the card being edited
HandleFormSubmit ==
    \E formData \in CreateInputs, editingUser \in {0} \cup ShownIds(ui) :
        /\ IF editingUser = 0 THEN RoomToInsert
           ELSE RoomToUpdate /\ formData \in UpdateInputs
        /\ Handle([ui EXCEPT
               !.pc = "handleFormSubmit",
               !.req = IF editingUser = 0
                       THEN [op |-> "createUser", arg |-> formData]
                       ELSE [op |-> "updateUser",
                             arg |-> [id |-> editingUser,
                                      userData |-> formData]]])

\* Delete in the confirmation of a card
HandleDeleteConfirm ==
    \E userToDelete \in ShownIds(ui) :
        Handle([ui EXCEPT !.pc = "handleDeleteConfirm",
                          !.req = [op |-> "deleteUser",
                                   arg |-> [id |-> userToDelete]]])

\* the note of what a list call returned to the component
Loaded(r, u) ==
    [op |-> r.op, arg |-> r.arg, hit |-> r.hit, success |-> r.env.success,
     first |-> u.first]

\* loadUsers after its await
LoadUsersResume ==
    /\ ui.pc = "loadUsers" /\ ret # NoRet
    /\ ui' = [ui EXCEPT
              !.pc = "idle", !.req = NoReq,
              !.filteredUsers = IF ret.env.success THEN ret.env.data.users
                                ELSE @,
              !.totalCount = IF ret.env.success THEN ret.env.data.totalCount
                             ELSE @,
              !.hasLoadError = ~ret.env.success,
              !.isLoading = FALSE,
              !.loaded = Loaded(ret, ui), !.first = FALSE]
    /\ UNCHANGED <<cache, now, store, nextId, dbClock, calls, ret, mon>>

\* handleSearch after its await
HandleSearchResume ==
    /\ ui.pc = "handleSearch" /\ ret # NoRet
    /\ ui' = [ui EXCEPT
              !.pc = "idle", !.req = NoReq,
              !.filteredUsers = IF ret.env.success THEN ret.env.data.users
                                ELSE <<>>,
              !.totalCount = IF ret.env.success THEN ret.env.data.totalCount
                             ELSE 0,
              !.loaded = Loaded(ret, ui), !.first = FALSE]
    /\ UNCHANGED <<cache, now, store, nextId, dbClock, calls, ret, mon>>

\* handleFormSubmit and handleDeleteConfirm after the await of the
\* mutation: on success the current page is loaded again
MutationResume ==
    /\ ui.pc \in {"handleFormSubmit", "handleDeleteConfirm"} /\ ret # NoRet
    /\ IF ret.env.success
       THEN /\ ui' = [IF Trim(ui.searchQuery) = <<>> THEN StartLoad(ui)
                      ELSE StartSearch(ui, ui.searchQuery)
                         EXCEPT !.after = ret,
                                !.created =
                                    IF ret.op = "createUser"
                                    THEN @ \cup {ret.env.data.id}
                                    ELSE IF ret.op = "deleteUser"
                                    THEN @ \ {ret.arg.id}
                                    ELSE @]
            /\ ret' = NoRet
       ELSE /\ ui' = [ui EXCEPT !.pc = "idle", !.req = NoReq]
            /\ ret' = ret
    /\ UNCHANGED <<cache, now, store, nextId, dbClock, calls, mon>>

\* the page is loaded again: the module state (apiCache) and the component
\* state start afresh, and what was awaited is never resumed
ReloadKeepsCache ==
    /\ ui' = [Mounted EXCEPT !.created =
                  IF ui.req.op = "deleteUser" THEN ui.created \ {ui.req.arg.id}
                  ELSE ui.created]
    /\ cache' = cache
    /\ calls' = <<Idle>>
    /\ ret' = NoRet
    /\ mon' = MonIdle
    /\ UNCHANGED <<now, store, nextId, dbClock>>
Reload ==
    /\ ui' = [Mounted EXCEPT !.created =
                  IF ui.req.op = "deleteUser" THEN ui.created \ {ui.req.arg.id}
                  ELSE ui.created]
    /\ cache' = <<>>
    /\ calls' = <<Idle>>
    /\ ret' = NoRet
    /\ mon' = MonIdle
    /\ UNCHANGED <<now, store, nextId, dbClock>>

\* the facade, the store and the clock take a step; the only call that
\* starts is the one the running handler awaits
Facade ==
    /\ Next
    /\ IF ui.pc = "idle" \/ ret # NoRet
       THEN calls' = calls /\ ret' = ret
       ELSE IF \A s \in Slots : calls[s] = Idle
       THEN \/ calls' = calls /\ ret' = ret
            \/ \E s \in Slots :
                  /\ calls'[s] # Idle
                  /\ calls'[s].op = ui.req.op /\ calls'[s].arg = ui.req.arg
            \/ /\ ret' # NoRet /\ ret'.hit
               /\ ret'.op = ui.req.op /\ ret'.arg = ui.req.arg
       ELSE ret' = NoRet \/ ~ret'.hit

InitUI ==
    /\ cache = <<>>
    /\ now = 0
    /\ store = <<>>
    /\ nextId = 1
    /\ dbClock = 0
    /\ calls = <<Idle>>
    /\ ret = NoRet
    /\ mon = MonIdle
    /\ ui = Mounted

NextUI ==
    \/ Facade
    \/ HandleSearch \/ HandleFormSubmit \/ HandleDeleteConfirm
    \/ LoadUsersResume \/ HandleSearchResume \/ MutationResume
    \/ Reload

SpecUI == InitUI /\ [][NextUI]_vars

----------------------------------------------------------------------------
(* What the list shows after a mutation, and after a reload                *)

\* the handler of a successful mutation has loaded the page again and ended
Refreshed == ui.pc = "idle" /\ ui.after # NoRet /\ ui.loaded # NoRet

\* the stored row with this id is selected by the active search query
Selects(u, id) ==
    \E i \in 1..Len(store) :
        /\ store[i].id = id
        /\ \/ Trim(u.searchQuery) = <<>>
           \/ SearchMatches(store[i], Trim(ToLowerCase(u.searchQuery)))

Refreshed_C18_Filtered ==
    /\ Refreshed /\ ui.loaded.success /\ ~ui.loaded.hit
    /\ ui.after.op = "createUser"
    /\ ui.searchQuery = <<"a">>
    /\ ShowsList(ui)
    /\ ui.after.env.data.id \notin ShownIds(ui)

----------------------------------------------------------------------------
(* Overlapping list and search calls                                       *)

InitOverlap ==
    /\ cache = <<>>
    /\ now = 0
    /\ store = <<>>
    /\ nextId = 1
    /\ dbClock = 0
    /\ calls = <<Idle, Idle, Idle>>
    /\ ret = NoRet
    /\ mon = MonIdle
    /\ ui = NoUI

\* up to three calls at their await at a time: getAllUsers(1, 20),
\* searchUsers("a", 1, 20) and createUser, answered by the store itself,
\* all within one tick of the clock
NextOverlap ==
    /\ Next
    /\ now' = now
    /\ \A s \in Slots :
          calls'[s] # Idle =>
              /\ calls'[s].op \in {"getAllUsers", "searchUsers", "createUser"}
              /\ calls'[s].op = "getAllUsers" =>
                     calls'[s].arg = [page |-> 1, limit |-> DefaultLimit]
              /\ calls'[s].op = "searchUsers" =>
                     calls'[s].arg.query = <<"a">>
              /\ calls'[s].pc = "replied" =>
                     /\ calls'[s].resp.thrown = NoThrow
                     /\ calls'[s].resp.error \in {NoError, ErrDuplicateEmail}

SpecOverlap == InitOverlap /\ [][NextOverlap]_vars

\* the continuation of the list or search call in slot s runs in this step
Resumes(s) ==
    /\ calls[s] # Idle /\ calls[s].pc = "replied"
    /\ calls[s].op \in {"getAllUsers", "searchUsers"}
    /\ calls'[s] = Idle

\* C20: a getAllUsers or searchUsers call that finds no live entry of its
\* key queries the store also while another call of the same key is at its
\* await; whatever the interleaving, the continuation of each call returns
\* success with the rows and the count its own store query returned, and
\* leaves under its key exactly that result with the time of this write,
\* whole, replacing what an overlapping call wrote before, and every other
\* cache entry as it was.
Overlap_C20 ==
    [][/\ \A s \in Slots :
             (calls[s] = Idle /\ calls'[s] # Idle
                 /\ calls'[s].op \in {"getAllUsers", "searchUsers"}) =>
                 /\ ~Live(ListKey(calls'[s].op, calls'[s].arg))
                 /\ calls'[s].pc = "sent"
       /\ (ret' # NoRet /\ ret' # ret
             /\ ret'.op \in {"getAllUsers", "searchUsers"} /\ ret'.hit) =>
             Live(ListKey(ret'.op, ret'.arg))
       /\ \A s \in Slots :
             Resumes(s) =>
                 LET key == ListKey(calls[s].op, calls[s].arg)
                     result == ListResult(calls[s].resp)
                 IN  /\ ret'.env.success
                     /\ ret'.op = calls[s].op /\ ret'.arg = calls[s].arg
                     /\ ret'.env.data = result
                     /\ key \in DOMAIN cache'
                     /\ cache'[key].data = result
                     /\ cache'[key].timestamp = now
                     /\ cache'[key].ttl = ServedFor(key)
                     /\ \A k \in (DOMAIN cache \cup DOMAIN cache') \ {key} :
                           /\ k \in DOMAIN cache /\ k \in DOMAIN cache'
                           /\ cache'[k] = cache[k]]_vars

\* C20 witness: two getAllUsers(1, 20) calls are at their await, both have
\* missed the cache and both have their own answer of the store, one from
\* before and one from after a user was created
Overlap_C20_Witness ==
    \E s, t \in Slots :
        /\ s # t
        /\ calls[s] # Idle /\ calls[t] # Idle
        /\ calls[s].op = "getAllUsers" /\ calls[t].op = "getAllUsers"
        /\ calls[s].arg = calls[t].arg
        /\ calls[s].pc = "replied" /\ calls[t].pc = "replied"
        /\ calls[s].resp.count = <<0>> /\ calls[t].resp.count = <<1>>

\* C20, last write wins: both calls have returned, and the cache holds the
\* result of the one whose continuation ran last, fetched before the user
\* was created
Overlap_C20_LastWrite ==
    /\ \A s \in Slots : calls[s] = Idle
    /\ ret # NoRet /\ ret.op = "getAllUsers" /\ ~ret.hit
    /\ ret.env.data.totalCount = 0
    /\ Len(store) = 1
    /\ ListKey(ret.op, ret.arg) \in DOMAIN cache
    /\ cache[ListKey(ret.op, ret.arg)].data = ret.env.data

----------------------------------------------------------------------------
(* The cache beside a copy of itself that is never swept: every method acts
   on both, the periodic cleanup (setInterval, every 10 minutes) on the
   first only.  mon.shadow is the copy. *)

otherVars == <<store, nextId, dbClock, calls, ui>>

InitSweep ==
    /\ cache = <<>>
    /\ now = 0
    /\ store = <<>>
    /\ nextId = 1
    /\ dbClock = 0
    /\ calls = <<>>
    /\ ret = NoRet
    /\ mon = [shadow |-> <<>>]
    /\ ui = NoUI

\* a key the cleanup took out and the copy still holds
Swept(k) == k \in DOMAIN mon.shadow /\ k \notin DOMAIN cache

SwSet ==
    \E k \in CKeys, v \in CValues, a \in CTtlArgs :
        /\ cache' = CacheSet(cache, k, v, a, now)
        /\ mon' = [shadow |-> CacheSet(mon.shadow, k, v, a, now)]
        /\ ret' = [op |-> "set", key |-> k]
        /\ UNCHANGED <<now, otherVars>>

SwGet ==
    \E k \in CKeys :
        /\ cache' = CacheAfterAccess(cache, k, now)
        /\ mon' = [shadow |-> CacheAfterAccess(mon.shadow, k, now)]
        /\ ret' = [op |-> "get", key |-> k, swept |-> Swept(k),
                   value |-> CacheGetValue(cache, k, now),
                   shadow |-> CacheGetValue(mon.shadow, k, now)]
        /\ UNCHANGED <<now, otherVars>>

SwHas ==
    \E k \in CKeys :
        /\ cache' = CacheAfterAccess(cache, k, now)
        /\ mon' = [shadow |-> CacheAfterAccess(mon.shadow, k, now)]
        /\ ret' = [op |-> "has", key |-> k, swept |-> Swept(k),
                   value |-> CacheHasValue(cache, k, now),
                   shadow |-> CacheHasValue(mon.shadow, k, now)]
        /\ UNCHANGED <<now, otherVars>>

SwDelete ==
    \E k \in CKeys :
        /\ cache' = CacheRemove(cache, {k})
        /\ mon' = [shadow |-> CacheRemove(mon.shadow, {k})]
        /\ ret' = [op |-> "delete", key |-> k]
        /\ UNCHANGED <<now, otherVars>>

SwClear ==
    /\ cache' = <<>>
    /\ mon' = [shadow |-> <<>>]
    /\ ret' = [op |-> "clear"]
    /\ UNCHANGED <<now, otherVars>>

\* the interval callback: apiCache.cleanup()
SwCleanup ==
    /\ cache' = CacheCleanup(cache, now)
    /\ ret' = [op |-> "cleanup", before |-> cache]
    /\ UNCHANGED <<now, mon, otherVars>>

SwTick ==
    /\ \E d \in {1, Minute} : TickBy(d)
    /\ ret' = NoRet
    /\ UNCHANGED <<cache, mon, otherVars>>

NextSweep == SwSet \/ SwGet \/ SwHas \/ SwDelete \/ SwClear \/ SwCleanup \/ SwTick

SpecSweep == InitSweep /\ [][NextSweep]_vars

\* the moments at which a later get or has may come
Later == {now, now + 1, now + Minute, now + DefaultTTL, now + DefaultTTL + 1}

\* C21: the sweep removes exactly the entries whose age exceeds their
\* time-to-live and leaves every other entry as it was; every get and has
\* answers the same as on a cache that was never swept, now and at every
\* later moment.
Sweep_C21 ==
    /\ ret.op = "cleanup" =>
          /\ DOMAIN cache =
                {k \in DOMAIN ret.before :
                    now - ret.before[k].timestamp <= ret.before[k].ttl}
          /\ \A k \in DOMAIN cache : cache[k] = ret.before[k]
    /\ ret.op \in {"get", "has"} => ret.value = ret.shadow
    /\ \A k \in CKeys, t \in Later :
          /\ CacheGetValue(cache, k, t) = CacheGetValue(mon.shadow, k, t)
          /\ CacheHasValue(cache, k, t) = CacheHasValue(mon.shadow, k, t)

\* C21 witness: a get of a key that the sweep had removed and the unswept
\* copy still held
Sweep_C21_Witness ==
    /\ ret.op = "get"
    /\ ret.swept
    /\ ret.value = NullData

\* a sweep that removed one entry and kept the other
Sweep_C21_Kept ==
    /\ ret.op = "cleanup"
    /\ DOMAIN ret.before = CKeys
    /\ Cardinality(DOMAIN cache) = 1

----------------------------------------------------------------------------
(* Thrown errors: code first, text last *)

TransportCodes == {"ECONNREFUSED", "ETIMEDOUT", "ENOTFOUND"}

\* C22: a thrown Error whose code is ECONNREFUSED, ETIMEDOUT or ENOTFOUND
\* yields that table entry's message whatever its text; a thrown Error without
\* a mapped code yields the timed-out message when its text contains
\* "timeout" or "ETIMEDOUT", also when it contains "fetch" or "network" as
\* well, and the network-error message otherwise; a thrown value that is not
\* an Error yields the network-error message.  The envelope is a failure
\* carrying the fallback data.
CodeFirst_C22 ==
    (ret.op = "classify" /\ ret.kind = "thrown") =>
        /\ ~ret.env.success
        /\ ret.env.data = ret.data
        /\ (ret.error.isError /\ ret.error.code \in TransportCodes) =>
              /\ ret.env.message = ErrorMapMessage(ret.error.code)
              /\ ret.env.message \notin {Msg.timedOut, Msg.network}
              /\ \A e2 \in ThrownErrors :
                    (e2.isError /\ e2.code = ret.error.code) =>
                        HandleNetworkError(e2, ret.context, ret.data) = ret.env
        /\ (ret.error.isError /\ ret.error.code \notin ErrorMapCodes) =>
              /\ HasTimeoutKw(ret.error.message) =>
                    ret.env.message = Msg.timedOut
              /\ ~HasTimeoutKw(ret.error.message) =>
                    ret.env.message = Msg.network
        /\ ~ret.error.isError => ret.env.message = Msg.network

\* C22 witness: an Error with code ECONNREFUSED whose text says "timeout"
\* and "network"
CodeFirst_C22_Witness ==
    /\ ret.op = "classify" /\ ret.kind = "thrown"
    /\ ret.error.isError
    /\ ret.error.code = "ECONNREFUSED"
    /\ ret.error.message = ThrownMessage.networkTimeout
    /\ ret.env.message = ErrorMapMessage("ECONNREFUSED")

\* an Error without a code whose text says "network" and "timeout"
CodeFirst_C22_TimeoutFirst ==
    /\ ret.op = "classify" /\ ret.kind = "thrown"
    /\ ret.error.isError
    /\ ret.error.code = NoCode
    /\ HasNetworkKw(ret.error.message)
    /\ HasTimeoutKw(ret.error.message)
    /\ ret.env.message = Msg.timedOut

----------------------------------------------------------------------------
(* The database scripts (lib/seedData): seedDatabase, clearDatabase and
   DatabaseManager.initialize, run from the same page as the facade.  They
   talk to the store client directly. *)

\* sampleUsers
sampleUsers ==
    <<
     [
      fullName |->
        <<"J", "o", "h", "n", " ", "D", "o", "e">>,
      email |->
        <<"j", "o", "h", "n", ".", "d", "o", "e", "@", "e", "x", "a", "m",
          "p", "l", "e", ".", "c", "o", "m">>,
      phoneNumber |->
        <<"+", "1", "-", "5", "5", "5", "-", "0", "1", "2", "3">>,
      bio |->
        <<"S", "o", "f", "t", "w", "a", "r", "e", " ", "d", "e", "v", "e",
          "l", "o", "p", "e", "r", " ", "w", "i", "t", "h", " ", "5", " ",
          "y", "e", "a", "r", "s", " ", "o", "f", " ", "e", "x", "p", "e",
          "r", "i", "e", "n", "c", "e", " ", "i", "n", " ", "R", "e", "a",
          "c", "t", " ", "a", "n", "d", " ", "N", "o", "d", "e", ".", "j",
          "s">>,
      avatarUrl |->
        <<"h", "t", "t", "p", "s", ":", "/", "/", "i", "m", "a", "g", "e",
          "s", ".", "u", "n", "s", "p", "l", "a", "s", "h", ".", "c", "o",
          "m", "/", "p", "h", "o", "t", "o", "-", "1", "4", "7", "2", "0",
          "9", "9", "6", "4", "5", "7", "8", "5", "-", "5", "6", "5", "8",
          "a", "b", "f", "4", "f", "f", "4", "e", "?", "w", "=", "1", "5",
          "0">>,
      dateOfBirth |->
        <<"1", "9", "8", "8", "-", "0", "3", "-", "1", "5">>,
      location |->
        <<"S", "a", "n", " ", "F", "r", "a", "n", "c", "i", "s", "c", "o",
          ",", " ", "C", "A">>],
     [
      fullName |->
        <<"J", "a", "n", "e", " ", "S", "m", "i", "t", "h">>,
      email |->
        <<"j", "a", "n", "e", ".", "s", "m", "i", "t", "h", "@", "e", "x",
          "a", "m", "p", "l", "e", ".", "c", "o", "m">>,
      phoneNumber |->
        <<"+", "1", "-", "5", "5", "5", "-", "0", "1", "2", "4">>,
      bio |->
        <<"U", "X", " ", "d", "e", "s", "i", "g", "n", "e", "r", " ", "p",
          "a", "s", "s", "i", "o", "n", "a", "t", "e", " ", "a", "b", "o",
          "u", "t", " ", "u", "s", "e", "r", "-", "c", "e", "n", "t", "e",
          "r", "e", "d", " ", "d", "e", "s", "i", "g", "n", " ", "a", "n",
          "d", " ", "a", "c", "c", "e", "s", "s", "i", "b", "i", "l", "i",
          "t", "y">>,
      avatarUrl |->
        <<"h", "t", "t", "p", "s", ":", "/", "/", "i", "m", "a", "g", "e",
          "s", ".", "u", "n", "s", "p", "l", "a", "s", "h", ".", "c", "o",
          "m", "/", "p", "h", "o", "t", "o", "-", "1", "4", "9", "4", "7",
          "9", "0", "1", "0", "8", "7", "5", "5", "-", "2", "6", "1", "6",
          "b", "6", "1", "2", "b", "7", "8", "6", "?", "w", "=", "1", "5",
          "0">>,
      dateOfBirth |->
        <<"1", "9", "9", "2", "-", "0", "7", "-", "2", "2">>,
      location |->
        <<"N", "e", "w", " ", "Y", "o", "r", "k", ",", " ", "N", "Y">>],
     [
      fullName |->
        <<"M", "i", "k", "e", " ", "J", "o", "h", "n", "s", "o", "n">>,
      email |->
        <<"m", "i", "k", "e", ".", "j", "o", "h", "n", "s", "o", "n", "@",
          "e", "x", "a", "m", "p", "l", "e", ".", "c", "o", "m">>,
      phoneNumber |->
        <<"+", "1", "-", "5", "5", "5", "-", "0", "1", "2", "5">>,
      bio |->
        <<"P", "r", "o", "d", "u", "c", "t", " ", "m", "a", "n", "a", "g",
          "e", "r", " ", "w", "i", "t", "h", " ", "a", " ", "b", "a", "c",
          "k", "g", "r", "o", "u", "n", "d", " ", "i", "n", " ", "e", "n",
          "g", "i", "n", "e", "e", "r", "i", "n", "g", " ", "a", "n", "d",
          " ", "d", "a", "t", "a", " ", "a", "n", "a", "l", "y", "s", "i",
          "s">>,
      avatarUrl |->
        <<"h", "t", "t", "p", "s", ":", "/", "/", "i", "m", "a", "g", "e",
          "s", ".", "u", "n", "s", "p", "l", "a", "s", "h", ".", "c", "o",
          "m", "/", "p", "h", "o", "t", "o", "-", "1", "5", "0", "7", "0",
          "0", "3", "2", "1", "1", "1", "6", "9", "-", "0", "a", "1", "d",
          "d", "7", "2", "2", "8", "f", "2", "d", "?", "w", "=", "1", "5",
          "0">>,
      dateOfBirth |->
        <<"1", "9", "8", "5", "-", "1", "1", "-", "0", "8">>,
      location |->
        <<"A", "u", "s", "t", "i", "n", ",", " ", "T", "X">>],
     [
      fullName |->
        <<"S", "a", "r", "a", "h", " ", "W", "i", "l", "s", "o", "n">>,
      email |->
        <<"s", "a", "r", "a", "h", ".", "w", "i", "l", "s", "o", "n", "@",
          "e", "x", "a", "m", "p", "l", "e", ".", "c", "o", "m">>,
      phoneNumber |->
        <<"+", "1", "-", "5", "5", "5", "-", "0", "1", "2", "6">>,
      bio |->
        <<"F", "u", "l", "l", "-", "s", "t", "a", "c", "k", " ", "d", "e",
          "v", "e", "l", "o", "p", "e", "r", " ", "s", "p", "e", "c", "i",
          "a", "l", "i", "z", "i", "n", "g", " ", "i", "n", " ", "m", "o",
          "d", "e", "r", "n", " ", "w", "e", "b", " ", "t", "e", "c", "h",
          "n", "o", "l", "o", "g", "i", "e", "s">>,
      avatarUrl |->
        <<"h", "t", "t", "p", "s", ":", "/", "/", "i", "m", "a", "g", "e",
          "s", ".", "u", "n", "s", "p", "l", "a", "s", "h", ".", "c", "o",
          "m", "/", "p", "h", "o", "t", "o", "-", "1", "4", "3", "8", "7",
          "6", "1", "6", "8", "1", "0", "3", "3", "-", "6", "4", "6", "1",
          "f", "f", "a", "d", "8", "d", "8", "0", "?", "w", "=", "1", "5",
          "0">>,
      dateOfBirth |->
        <<"1", "9", "9", "0", "-", "0", "5", "-", "1", "2">>,
      location |->
        <<"S", "e", "a", "t", "t", "l", "e", ",", " ", "W", "A">>],
     [
      fullName |->
        <<"D", "a", "v", "i", "d", " ", "B", "r", "o", "w", "n">>,
      email |->
        <<"d", "a", "v", "i", "d", ".", "b", "r", "o", "w", "n", "@", "e",
          "x", "a", "m", "p", "l", "e", ".", "c", "o", "m">>,
      phoneNumber |->
        <<"+", "1", "-", "5", "5", "5", "-", "0", "1", "2", "7">>,
      bio |->
        <<"D", "e", "v", "O", "p", "s", " ", "e", "n", "g", "i", "n", "e",
          "e", "r", " ", "w", "i", "t", "h", " ", "e", "x", "p", "e", "r",
          "t", "i", "s", "e", " ", "i", "n", " ", "c", "l", "o", "u", "d",
          " ", "i", "n", "f", "r", "a", "s", "t", "r", "u", "c", "t", "u",
          "r", "e", " ", "a", "n", "d", " ", "a", "u", "t", "o", "m", "a",
          "t", "i", "o", "n">>,
      avatarUrl |->
        <<"h", "t", "t", "p", "s", ":", "/", "/", "i", "m", "a", "g", "e",
          "s", ".", "u", "n", "s", "p", "l", "a", "s", "h", ".", "c", "o",
          "m", "/", "p", "h", "o", "t", "o", "-", "1", "5", "0", "0", "6",
          "4", "8", "7", "6", "7", "7", "9", "1", "-", "0", "0", "d", "c",
          "c", "9", "9", "4", "a", "4", "3", "e", "?", "w", "=", "1", "5",
          "0">>,
      dateOfBirth |->
        <<"1", "9", "8", "7", "-", "0", "9", "-", "3", "0">>,
      location |->
        <<"D", "e", "n", "v", "e", "r", ",", " ", "C", "O">>]
    >>

\* the highest id after which clearDatabase is still run
MaxSeedIds == 6

\* existingUsers && existingUsers.length > 0
HasDataNever(data) == FALSE
HasData(data) == data # NullRows /\ Len(data.rows) > 0

\* the rows one INSERT of the sample users adds: one statement, one NOW()
SeedRows(id, t) ==
    [i \in 1..Len(sampleUsers) |->
        InsertedRow(InsertData(sampleUsers[i]), id + i - 1, t)]

Script(op, step, via, probe, saw) ==
    Call(op, [step |-> step, via |-> via, probe |-> probe, saw |-> saw])

AtStep(s, op, step, pc) ==
    /\ calls[s] # Idle /\ calls[s].op = op /\ calls[s].pc = pc
    /\ calls[s].arg.step = step

\* what a script returns; insertedCount is <<>> when the field is absent
ScriptReturn(s, outcome, success, insertedCount, wrote) ==
    /\ ret' = [op |-> calls[s].arg.via, outcome |-> outcome,
               probe |-> calls[s].arg.probe, saw |-> calls[s].arg.saw,
               success |-> success, insertedCount |-> insertedCount,
               wrote |-> wrote]
    /\ calls' = [calls EXCEPT ![s] = Idle]

SeedDatabaseCall ==
    \E s \in Slots :
        /\ Suspend(s, "seedDatabase",
                   [step |-> "check", via |-> "seedDatabase", probe |-> -1,
                    saw |-> -1])
        /\ UNCHANGED <<cache, now, store, nextId, dbClock, ui>>

InitializeCall ==
    \E s \in Slots :
        /\ Suspend(s, "initialize",
                   [step |-> "probe", via |-> "initialize", probe |-> -1,
                    saw |-> -1])
        /\ UNCHANGED <<cache, now, store, nextId, dbClock, ui>>

ClearDatabaseCall ==
    \E s \in Slots :
        /\ nextId <= MaxSeedIds
        /\ Suspend(s, "clearDatabase",
                   [step |-> "count", via |-> "clearDatabase", probe |-> -1,
                    saw |-> -1])
        /\ UNCHANGED <<cache, now, store, nextId, dbClock, ui>>

\* .select("id").limit(1)
StoreSelectFirst ==
    \E s \in Slots :
        /\ \/ AtStep(s, "seedDatabase", "check", "sent")
           \/ AtStep(s, "initialize", "probe", "sent")
        /\ \E rows \in IF store = <<>> THEN {<<>>}
                        ELSE {<<[id |-> store[i].id]>> : i \in 1..Len(store)} :
              Answer(s, Reply(SomeRows(rows), NoError, <<>>))
        /\ UNCHANGED <<cache, now, store, nextId, dbClock, ret, mon, ui>>

\* .insert(insertData).select(): refused as a whole when an email is taken
StoreSeedInsert ==
    \E s \in Slots :
        /\ AtStep(s, "seedDatabase", "insert", "sent")
        /\ IF \E i \in 1..Len(sampleUsers) :
                  EmailTaken(store, sampleUsers[i].email, 0)
           THEN /\ Answer(s, Reply(NullRows, ErrDuplicateEmail, <<>>))
                /\ UNCHANGED <<store, nextId, dbClock>>
           ELSE /\ store' = store \o SeedRows(nextId, dbClock + 1)
                /\ nextId' = nextId + Len(sampleUsers)
                /\ dbClock' = dbClock + 1
                /\ Answer(s, Reply(SomeRows(SeedRows(nextId, dbClock + 1)),
                                   NoError, <<>>))
        /\ UNCHANGED <<cache, now, ret, mon, ui>>

\* .select("*", { count: "exact", head: true })
StoreCount ==
    \E s \in Slots :
        /\ AtStep(s, "clearDatabase", "count", "sent")
        /\ Answer(s, Reply(NullRows, NoError, <<Len(store)>>))
        /\ UNCHANGED <<cache, now, store, nextId, dbClock, ret, mon, ui>>

\* .delete().neq("id", "00000000-0000-0000-0000-000000000000")
StoreDeleteAll ==
    \E s \in Slots :
        /\ AtStep(s, "clearDatabase", "delete", "sent")
        /\ store' = Keep(store, {i \in 1..Len(store) : store[i].id = 0})
        /\ Answer(s, Reply(NullData, NoError, <<>>))
        /\ UNCHANGED <<cache, now, nextId, dbClock, ret, mon, ui>>

\* initialize, after its first await
ResumeInitialize ==
    \E s \in Slots :
        /\ AtStep(s, "initialize", "probe", "replied")
        /\ LET c == calls[s]
           IN  IF c.resp.thrown # NoThrow
               THEN ScriptReturn(s, "threw", FALSE, <<>>, 0)
               ELSE IF c.resp.error # NoError
               THEN ScriptReturn(s, "connectionFailed", FALSE, <<>>, 0)
               ELSE IF c.resp.data = NullRows \/ Len(c.resp.data.rows) = 0
               THEN /\ calls' = [calls EXCEPT ![s] =
                            Script("seedDatabase", "check", "initialize",
                                   0, -1)]
                    /\ ret' = ret
               ELSE /\ ret' = [op |-> "initialize", outcome |-> "hasData",
                               probe |-> Len(c.resp.data.rows), saw |-> -1,
                               success |-> TRUE, insertedCount |-> <<>>,
                               wrote |-> 0]
                    /\ calls' = [calls EXCEPT ![s] = Idle]
        /\ UNCHANGED <<cache, now, store, nextId, dbClock, mon, ui>>

\* seedDatabase, after its first await
ResumeSeedCheck ==
    \E s \in Slots :
        /\ AtStep(s, "seedDatabase", "check", "replied")
        /\ LET c == calls[s]
           IN  IF c.resp.thrown # NoThrow
               THEN ScriptReturn(s, "threw", FALSE, <<>>, 0)
               ELSE IF c.resp.error # NoError
               THEN ScriptReturn(s, "checkFailed", FALSE, <<>>, 0)
               ELSE IF HasData(c.resp.data)
               THEN /\ ret' = [op |-> c.arg.via, outcome |-> "skipped",
                               probe |-> c.arg.probe,
                               saw |-> Len(c.resp.data.rows),
                               success |-> TRUE, insertedCount |-> <<0>>,
                               wrote |-> 0]
                    /\ calls' = [calls EXCEPT ![s] = Idle]
               ELSE /\ calls' = [calls EXCEPT ![s] =
                            Script("seedDatabase", "insert", c.arg.via,
                                   c.arg.probe,
                                   IF c.resp.data = NullRows THEN 0
                                   ELSE Len(c.resp.data.rows))]
                    /\ ret' = ret
        /\ UNCHANGED <<cache, now, store, nextId, dbClock, mon, ui>>

\* seedDatabase, after its second await
ResumeSeedInsert ==
    \E s \in Slots :
        /\ AtStep(s, "seedDatabase", "insert", "replied")
        /\ LET c == calls[s]
           IN  IF c.resp.thrown # NoThrow
               THEN ScriptReturn(s, "threw", FALSE, <<>>, 0)
               ELSE IF c.resp.error # NoError
               THEN ScriptReturn(s, "seedFailed", FALSE, <<>>, 0)
               ELSE ScriptReturn(s, "seeded", TRUE,
                                 <<Len(c.resp.data.rows)>>,
                                 Len(c.resp.data.rows))
        /\ UNCHANGED <<cache, now, store, nextId, dbClock, mon, ui>>

\* clearDatabase, after its first await
ResumeClearCount ==
    \E s \in Slots :
        /\ AtStep(s, "clearDatabase", "count", "replied")
        /\ LET c == calls[s]
           IN  IF c.resp.thrown # NoThrow
               THEN ScriptReturn(s, "threw", FALSE, <<>>, 0)
               ELSE IF c.resp.error # NoError
               THEN ScriptReturn(s, "countFailed", FALSE, <<>>, 0)
               ELSE /\ calls' = [calls EXCEPT ![s] =
                            Script("clearDatabase", "delete",
                                   "clearDatabase", -1, c.resp.count[1])]
                    /\ ret' = ret
        /\ UNCHANGED <<cache, now, store, nextId, dbClock, mon, ui>>

\* clearDatabase, after its second await
ResumeClearDelete ==
    \E s \in Slots :
        /\ AtStep(s, "clearDatabase", "delete", "replied")
        /\ LET c == calls[s]
           IN  IF c.resp.thrown # NoThrow
               THEN ScriptReturn(s, "threw", FALSE, <<>>, 0)
               ELSE IF c.resp.error # NoError
               THEN ScriptReturn(s, "clearFailed", FALSE, <<>>, 0)
               ELSE ScriptReturn(s, "cleared", TRUE, <<>>, c.arg.saw)
        /\ UNCHANGED <<cache, now, store, nextId, dbClock, mon, ui>>

\* the table is empty or holds one user made through the form earlier
InitSeed ==
    /\ cache = <<>>
    /\ now = 0
    /\ \/ store = <<>> /\ nextId = 1 /\ dbClock = 0
       \/ /\ store = <<InsertedRow(InsertData(FormAnn), 1, 1)>>
          /\ nextId = 2 /\ dbClock = 1
    /\ calls = <<Idle, Idle>>
    /\ ret = NoRet
    /\ mon = MonIdle
    /\ ui = NoUI

ScriptOps == {"seedDatabase", "initialize", "clearDatabase"}

\* the facade beside the scripts: getAllUsers(1, 20), and the faults the
\* store client reports to whoever is waiting
FacadeReads ==
    /\ Next
    /\ now' = now
    /\ \A s \in Slots :
          (calls'[s] # Idle /\ calls'[s].op \notin ScriptOps) =>
              /\ calls'[s].op = "getAllUsers"
              /\ calls'[s].arg = [page |-> 1, limit |-> DefaultLimit]

NextSeed ==
    \/ SeedDatabaseCall \/ InitializeCall \/ ClearDatabaseCall
    \/ StoreSelectFirst \/ StoreSeedInsert \/ StoreCount \/ StoreDeleteAll
    \/ ResumeInitialize \/ ResumeSeedCheck \/ ResumeSeedInsert
    \/ ResumeClearCount \/ ResumeClearDelete
    \/ FacadeReads

SpecSeed == InitSeed /\ [][NextSeed]_vars

\* the form data behind a row
Seeded(rows) == [i \in 1..Len(rows) |-> FormOf(TransformUser(rows[i]))]

\* C23: a seedDatabase run, alone or inside initialize, that finds a row in
\* the table inserts nothing and reports success with insertedCount 0, and
\* initialize does not seed at all when its own probe finds a row; rows are
\* only ever added to an empty table, all sample users at once; so however
\* many runs overlap the table never holds an email twice and a run that
\* reports n inserted users has added exactly the n = 5 sample users.
Seed_C23 ==
    /\ [](/\ (ret # NoRet /\ ret.op \in {"seedDatabase", "initialize"}) =>
               /\ ret.saw > 0 =>
                     /\ ret.success /\ ret.insertedCount = <<0>>
                     /\ ret.wrote = 0
               /\ ret.probe > 0 => ret.saw = -1 /\ ret.wrote = 0
               /\ ret.insertedCount # <<>> =>
                     /\ ret.insertedCount = <<ret.wrote>>
                     /\ ret.wrote \in {0, Len(sampleUsers)}
           /\ \A i, j \in 1..Len(store) :
                  store[i].email = store[j].email => i = j)
    /\ [][(store' # store /\ store' # <<>>) =>
             /\ store = <<>>
             /\ Seeded(store') = sampleUsers]_vars

\* C23 witness: two runs both found the table empty; the first has seeded
\* it, the second was refused by the store and the table holds the five
\* sample users once
Seed_C23_Witness ==
    /\ ret # NoRet /\ ret.op = "seedDatabase"
    /\ ret.outcome = "seedFailed" /\ ret.saw = 0
    /\ Seeded(store) = sampleUsers
    /\ \A s \in Slots : calls[s] = Idle

\* a run on a table that holds one user of the form
Seed_C23_Skipped ==
    /\ ret # NoRet /\ ret.op = "seedDatabase"
    /\ ret.outcome = "skipped"
    /\ Len(store) = 1 /\ store[1].email = FormAnn.email

----------------------------------------------------------------------------
(* QR codes: QRCodeModal.generateQRCode writes a user as JSON text,
   QRCodeReader.handleScanResult reads such a text back into form data *)

\* the property names and fixed values of the payload
Json ==
    [type |-> <<"t", "y", "p", "e">>,
     version |-> <<"v", "e", "r", "s", "i", "o", "n">>,
     data |-> <<"d", "a", "t", "a">>,
     id |-> <<"i", "d">>,
     fullName |-> <<"f", "u", "l", "l", "N", "a", "m", "e">>,
     email |-> <<"e", "m", "a", "i", "l">>,
     phoneNumber |-> <<"p", "h", "o", "n", "e", "N", "u", "m", "b", "e", "r">>,
     bio |-> <<"b", "i", "o">>,
     location |-> <<"l", "o", "c", "a", "t", "i", "o", "n">>,
     dateOfBirth |-> <<"d", "a", "t", "e", "O", "f", "B", "i", "r", "t", "h">>,
     avatarUrl |-> <<"a", "v", "a", "t", "a", "r", "U", "r", "l">>,
     createdAt |-> <<"c", "r", "e", "a", "t", "e", "d", "A", "t">>,
     userProfile |-> <<"u", "s", "e", "r", "_", "p", "r", "o", "f", "i", "l", "e">>,
     v1 |-> <<"1", ".", "0">>]

\* JSON.stringify of a string: quote and backslash are escaped, a line break
\* is written as \n
EscapeCharNone(c) == <<c>>
EscapeChar(c) ==
    IF c = "\"" THEN <<"\\", "\"">>
    ELSE IF c = "\\" THEN <<"\\", "\\">>
    ELSE IF c = "\n" THEN <<"\\", "n">>
    ELSE <<c>>

RECURSIVE JsonEscape(_)
JsonEscape(s) ==
    IF s = <<>> THEN <<>> ELSE EscapeChar(Head(s)) \o JsonEscape(Tail(s))

JsonString(s) == <<"\"">> \o JsonEscape(s) \o <<"\"">>

Member(key, valueText) == JsonString(key) \o <<":">> \o valueText

\* JSON.stringify(qrData), properties in the order they are written
Stringify(user) ==
    <<"{">> \o Member(Json.type, JsonString(Json.userProfile))
    \o <<",">> \o Member(Json.version, JsonString(Json.v1))
    \o <<",">> \o Member(Json.data,
        <<"{">> \o Member(Json.id, JsonString(NumText(user.id)))
        \o <<",">> \o Member(Json.fullName, JsonString(user.fullName))
        \o <<",">> \o Member(Json.email, JsonString(user.email))
        \o <<",">> \o Member(Json.phoneNumber, JsonString(user.phoneNumber))
        \o <<",">> \o Member(Json.bio, JsonString(user.bio))
        \o <<",">> \o Member(Json.location, JsonString(user.location))
        \o <<",">> \o Member(Json.dateOfBirth, JsonString(user.dateOfBirth))
        \o <<",">> \o Member(Json.avatarUrl, JsonString(user.avatarUrl))
        \o <<",">> \o Member(Json.createdAt,
                              JsonString(NumText(user.createdAt)))
        \o <<"}">>)
    \o <<"}">>

\* JSON.parse, for texts made of objects and strings: a parsed value is
\* [kind, text] or [kind, members], a failure is SyntaxError
SyntaxError == [ok |-> FALSE]
Parsed(value, next) == [ok |-> TRUE, value |-> value, next |-> next]
JsonText(text) == [kind |-> "string", text |-> text, members |-> <<>>]
JsonObject(members) == [kind |-> "object", text |-> <<>>, members |-> members]

\* the rest of a string whose opening quote was read
RECURSIVE ParseChars(_, _, _)
ParseChars(t, i, acc) ==
    IF i > Len(t) THEN SyntaxError
    ELSE IF t[i] = "\"" THEN Parsed(JsonText(acc), i + 1)
    ELSE IF t[i] = "\n" THEN SyntaxError
    ELSE IF t[i] = "\\"
    THEN IF i + 1 > Len(t) THEN SyntaxError
         ELSE IF t[i + 1] \in {"\"", "\\", "/"}
         THEN ParseChars(t, i + 2, Append(acc, t[i + 1]))
         ELSE IF t[i + 1] = "n"
         THEN ParseChars(t, i + 2, Append(acc, "\n"))
         ELSE SyntaxError
    ELSE ParseChars(t, i + 1, Append(acc, t[i]))

RECURSIVE ParseValue(_, _)
RECURSIVE ParseMembers(_, _, _)

\* a value that starts at position i
ParseValue(t, i) ==
    IF i > Len(t) THEN SyntaxError
    ELSE IF t[i] = "\"" THEN ParseChars(t, i + 1, <<>>)
    ELSE IF t[i] = "{"
    THEN IF i + 1 <= Len(t) /\ t[i + 1] = "}"
         THEN Parsed(JsonObject(<<>>), i + 2)
         ELSE ParseMembers(t, i + 1, <<>>)
    ELSE SyntaxError

\* the members of an object from position i on, up to the closing brace
ParseMembers(t, i, acc) ==
    IF i > Len(t) \/ t[i] # "\"" THEN SyntaxError
    ELSE LET key == ParseChars(t, i + 1, <<>>)
         IN  IF ~key.ok THEN SyntaxError
             ELSE IF key.next > Len(t) \/ t[key.next] # ":" THEN SyntaxError
             ELSE LET val == ParseValue(t, key.next + 1)
                  IN  IF ~val.ok THEN SyntaxError
                      ELSE LET all == Append(acc, [key |-> key.value.text,
                                                   value |-> val.value])
                           IN  IF val.next > Len(t) THEN SyntaxError
                               ELSE IF t[val.next] = "}"
                               THEN Parsed(JsonObject(all), val.next + 1)
                               ELSE IF t[val.next] = ","
                               THEN ParseMembers(t, val.next + 1, all)
                               ELSE SyntaxError

JsonParse(t) ==
    LET p == ParseValue(t, 1)
    IN  IF p.ok /\ p.next = Len(t) + 1 THEN p ELSE SyntaxError

JsonUndefined == [kind |-> "undefined", text |-> <<>>, members |-> <<>>]

\* value.key: the last member of that name, undefined when there is none
Prop(value, key) ==
    LET at == {i \in 1..Len(value.members) : value.members[i].key = key}
    IN  IF at = {} THEN JsonUndefined
        ELSE value.members[CHOOSE i \in at : \A j \in at : j <= i].value

\* !value
Falsy(value) ==
    value.kind = "undefined" \/ (value.kind = "string" /\ value.text = <<>>)

\* value || ''
TextOr(value) == IF Falsy(value) THEN JsonText(<<>>) ELSE value

Rejected == [accepted |-> FALSE]

\* handleScanResult: the form data handed to onQRCodeRead, or the rejection
HandleScanResult(data) ==
    LET p == JsonParse(data)
    IN  IF ~p.ok THEN Rejected
        ELSE LET qrData == p.value
                 d == Prop(qrData, Json.data)
             IN  IF Prop(qrData, Json.type) # JsonText(Json.userProfile)
                    \/ Falsy(d)
                 THEN Rejected
                 ELSE IF Falsy(Prop(d, Json.fullName))
                         \/ Falsy(Prop(d, Json.email))
                 THEN Rejected
                 ELSE [accepted |-> TRUE,
                       userData |->
                           [fullName |-> TextOr(Prop(d, Json.fullName)),
                            email |-> TextOr(Prop(d, Json.email)),
                            phoneNumber |-> TextOr(Prop(d, Json.phoneNumber)),
                            bio |-> TextOr(Prop(d, Json.bio)),
                            avatarUrl |-> TextOr(Prop(d, Json.avatarUrl)),
                            dateOfBirth |-> TextOr(Prop(d, Json.dateOfBirth)),
                            location |-> TextOr(Prop(d, Json.location))]]

\* texts a scanned code may hold that no QRCodeModal wrote
Payload ==
    [notJson |->
        <<"h", "e", "l", "l", "o">>,

     otherType |->
        <<"{", "\"", "t", "y", "p", "e", "\"", ":", "\"", "c", "o", "n",
          "t", "a", "c", "t", "\"", ",", "\"", "v", "e", "r", "s", "i",
          "o", "n", "\"", ":", "\"", "1", ".", "0", "\"", ",", "\"", "d",
          "a", "t", "a", "\"", ":", "{", "\"", "f", "u", "l", "l", "N",
          "a", "m", "e", "\"", ":", "\"", "A", "n", "n", "\"", ",", "\"",
          "e", "m", "a", "i", "l", "\"", ":", "\"", "a", "@", "x", "\"",
          "}", "}">>,

     noType |->
        <<"{", "\"", "d", "a", "t", "a", "\"", ":", "{", "\"", "f", "u",
          "l", "l", "N", "a", "m", "e", "\"", ":", "\"", "A", "n", "n",
          "\"", ",", "\"", "e", "m", "a", "i", "l", "\"", ":", "\"", "a",
          "@", "x", "\"", "}", "}">>,

     noData |->
        <<"{", "\"", "t", "y", "p", "e", "\"", ":", "\"", "u", "s", "e",
          "r", "_", "p", "r", "o", "f", "i", "l", "e", "\"", ",", "\"",
          "v", "e", "r", "s", "i", "o", "n", "\"", ":", "\"", "1", ".",
          "0", "\"", "}">>,

     noEmail |->
        <<"{", "\"", "t", "y", "p", "e", "\"", ":", "\"", "u", "s", "e",
          "r", "_", "p", "r", "o", "f", "i", "l", "e", "\"", ",", "\"",
          "v", "e", "r", "s", "i", "o", "n", "\"", ":", "\"", "1", ".",
          "0", "\"", ",", "\"", "d", "a", "t", "a", "\"", ":", "{", "\"",
          "f", "u", "l", "l", "N", "a", "m", "e", "\"", ":", "\"", "A",
          "n", "n", "\"", "}", "}">>,

     noName |->
        <<"{", "\"", "t", "y", "p", "e", "\"", ":", "\"", "u", "s", "e",
          "r", "_", "p", "r", "o", "f", "i", "l", "e", "\"", ",", "\"",
          "v", "e", "r", "s", "i", "o", "n", "\"", ":", "\"", "1", ".",
          "0", "\"", ",", "\"", "d", "a", "t", "a", "\"", ":", "{", "\"",
          "e", "m", "a", "i", "l", "\"", ":", "\"", "a", "@", "x", "\"",
          "}", "}">>,

     emptyName |->
        <<"{", "\"", "t", "y", "p", "e", "\"", ":", "\"", "u", "s", "e",
          "r", "_", "p", "r", "o", "f", "i", "l", "e", "\"", ",", "\"",
          "v", "e", "r", "s", "i", "o", "n", "\"", ":", "\"", "1", ".",
          "0", "\"", ",", "\"", "d", "a", "t", "a", "\"", ":", "{", "\"",
          "f", "u", "l", "l", "N", "a", "m", "e", "\"", ":", "\"", "\"",
          ",", "\"", "e", "m", "a", "i", "l", "\"", ":", "\"", "a", "@",
          "x", "\"", "}", "}">>,

     textData |->
        <<"{", "\"", "t", "y", "p", "e", "\"", ":", "\"", "u", "s", "e",
          "r", "_", "p", "r", "o", "f", "i", "l", "e", "\"", ",", "\"",
          "d", "a", "t", "a", "\"", ":", "\"", "A", "n", "n", "\"", "}">>,

     cutShort |->
        <<"{", "\"", "t", "y", "p", "e", "\"", ":", "\"", "u", "s", "e",
          "r", "_", "p", "r", "o", "f", "i", "l", "e", "\"", ",", "\"",
          "d", "a", "t", "a", "\"", ":", "{", "\"", "f", "u", "l", "l",
          "N", "a", "m", "e", "\"", ":", "\"", "A", "n", "n", "\"", ",",
          "\"", "e", "m", "a", "i", "l", "\"", ":", "\"", "a", "@", "x",
          "\"", "}">>,

     bare |->
        <<"{", "\"", "t", "y", "p", "e", "\"", ":", "\"", "u", "s", "e",
          "r", "_", "p", "r", "o", "f", "i", "l", "e", "\"", ",", "\"",
          "d", "a", "t", "a", "\"", ":", "{", "\"", "f", "u", "l", "l",
          "N", "a", "m", "e", "\"", ":", "\"", "A", "n", "n", "\"", ",",
          "\"", "e", "m", "a", "i", "l", "\"", ":", "\"", "a", "@", "x",
          "\"", "}", "}">>]

ForeignPayloads ==
    {Payload.notJson, Payload.otherType, Payload.noType, Payload.noData,
     Payload.noEmail, Payload.noName, Payload.emptyName, Payload.textData,
     Payload.cutShort, Payload.bare}

\* the users a card can show: rows of the table as the facade returns them
QRForms ==
    [fullName : {<<"A", "n", "n">>, <<"A", "\"">>, <<>>},
     email : {<<"a", "@", "x">>, <<>>},
     phoneNumber : {<<>>, <<"1">>},
     bio : {<<>>, <<"\\", "\"", "}">>, <<"a", "\n", "b">>},
     avatarUrl : {<<>>, <<"/", ":", ",">>},
     dateOfBirth : {<<>>},
     location : {<<>>, <<"{", "a", "\\">>}]

QRUsers == {TransformUser(InsertedRow(InsertData(f), 1, 1)) : f \in QRForms}

InitQR ==
    /\ cache = <<>> /\ now = 0
    /\ store = <<>> /\ nextId = 1 /\ dbClock = 0
    /\ calls = <<>>
    /\ ret = NoRet
    /\ mon = MonIdle
    /\ \E user \in QRUsers :
          ui = [pc |-> "modal", user |-> user, qrString |-> <<>>,
                scanned |-> <<>>, result |-> Rejected, form |-> <<>>]

\* QRCodeModal opens on the user
GenerateQRCode ==
    /\ ui.pc = "modal"
    /\ ui' = [ui EXCEPT !.pc = "generated", !.qrString = Stringify(ui.user)]
    /\ UNCHANGED <<cache, now, store, nextId, dbClock, calls, ret, mon>>

\* QRCodeReader reads a code: the one just made, or some other text
ScanResult ==
    /\ ui.pc \in {"modal", "generated"}
    /\ \E data \in (IF ui.pc = "generated" THEN {ui.qrString} ELSE {})
                    \cup ForeignPayloads :
          ui' = [ui EXCEPT !.pc = "scanned", !.scanned = data,
                           !.result = HandleScanResult(data)]
    /\ UNCHANGED <<cache, now, store, nextId, dbClock, calls, ret, mon>>

\* the timer set by an accepted scan: onQRCodeRead(userData)
OnQRCodeRead ==
    /\ ui.pc = "scanned"
    /\ ui.result.accepted
    /\ ui' = [ui EXCEPT !.pc = "read", !.form = <<ui.result.userData>>]
    /\ UNCHANGED <<cache, now, store, nextId, dbClock, calls, ret, mon>>

NextQR == GenerateQRCode \/ ScanResult \/ OnQRCodeRead

SpecQR == InitQR /\ [][NextQR]_vars

FormFields ==
    {"fullName", "email", "phoneNumber", "bio", "avatarUrl", "dateOfBirth",
     "location"}

\* payloads of another type, without data, or without a name or an email
BadPayloads ==
    {Payload.otherType, Payload.noType, Payload.noData, Payload.noEmail,
     Payload.noName, Payload.emptyName, Payload.textData}

\* C24: the text written for a user is JSON for an object with type
\* "user_profile", version "1.0" and an object data; when the user has a
\* name and an email, reading that text is accepted and each of the seven
\* form fields handed on equals the user's; a text whose type is not
\* "user_profile" or whose data has no fullName or no email is rejected,
\* and nothing reaches onQRCodeRead that was not accepted.
QR_C24 ==
    /\ ui.qrString # <<>> =>
          LET p == JsonParse(ui.qrString)
          IN  /\ p.ok
              /\ p.value.kind = "object"
              /\ Prop(p.value, Json.type) = JsonText(Json.userProfile)
              /\ Prop(p.value, Json.version) = JsonText(Json.v1)
              /\ Prop(p.value, Json.data).kind = "object"
    /\ (ui.pc \in {"scanned", "read"} /\ ui.scanned = ui.qrString
        /\ ui.user.fullName # <<>> /\ ui.user.email # <<>>) =>
          /\ ui.result.accepted
          /\ \A f \in FormFields :
                ui.result.userData[f] = JsonText(ui.user[f])
    /\ (ui.pc \in {"scanned", "read"} /\ ui.scanned \in BadPayloads) =>
          ~ui.result.accepted
    /\ ui.pc = "read" =>
          /\ ui.result.accepted
          /\ ui.form = <<ui.result.userData>>
          /\ ui.scanned \notin BadPayloads

\* C24 witness: the code of a user whose texts hold quotes, backslashes,
\* braces and a line break was read back and handed on
QR_C24_Witness ==
    /\ ui.pc = "read"
    /\ ui.scanned = ui.qrString
    /\ ui.user.fullName = <<"A", "\"">>
    /\ ui.user.bio = <<"a", "\n", "b">>
    /\ ui.user.location = <<"{", "a", "\\">>
    /\ ui.form[1].bio = JsonText(ui.user.bio)

\* a text of another type was read and rejected
QR_C24_Rejected ==
    /\ ui.pc = "scanned"
    /\ ui.scanned = Payload.otherType
    /\ ~ui.result.accepted

----------------------------------------------------------------------------
(* A list call overlapping a mutation *)

\* C25 as claimed: with calls overlapping, a getAllUsers or searchUsers that
\* is served from the cache once every mutation has returned holds the rows
\* and the count the store has now; no result read before a mutation that
\* has returned is served.
Stale_C25_Claim ==
    (ListReturned /\ ret.hit) =>
        /\ ret.env.data.users = OnPage(ret)
        /\ ret.env.data.totalCount = Len(Selected(ret.op, ret.arg))

\* C25 witness: the table holds a user whose createUser has returned, no
\* call is in flight, and getAllUsers(1, 20) returned from the cache the
\* empty list that was read before the insert
Stale_C25_Witness ==
    /\ ListReturned /\ ret.hit /\ ret.op = "getAllUsers"
    /\ ret.env.success
    /\ ret.env.data.users = <<>> /\ ret.env.data.totalCount = 0
    /\ Len(store) = 1
    /\ KeyAllUsers(1, DefaultLimit) \in DOMAIN cache

----------------------------------------------------------------------------
(* Failed mutations *)

\* the answer the call received is a store error or a thrown error
Failed(resp) == resp.thrown # NoThrow \/ resp.error # NoError

\* C26: no step of a createUser, updateUser or deleteUser call that ends
\* with a store error or a thrown error changes the cache: the call itself
\* up to its await, and its continuation, which returns success = false,
\* leave every entry as it was, and every list and search key is answered
\* as before.
FailFrame_C26 ==
    [][\A s \in Slots :
          /\ (calls[s] = Idle /\ calls'[s] # Idle
              /\ calls'[s].op \in Mutations) => cache' = cache
          /\ (calls[s] # Idle /\ calls[s].op \in Mutations
              /\ calls[s].pc = "replied" /\ Failed(calls[s].resp)
              /\ calls'[s] = Idle) =>
                /\ ~ret'.env.success
                /\ cache' = cache
                /\ \A k \in DOMAIN cache :
                      CacheGetValue(cache', k, now')
                          = CacheGetValue(cache, k, now)]_vars

\* C26 witness: a mutation has just returned a failure and the cache holds
\* a live list entry
FailFrame_C26_Witness ==
    /\ ret # NoRet /\ ret.op \in Mutations
    /\ ~ret.env.success
    /\ ret.resp.thrown = NoThrow /\ ret.resp.error = ErrDuplicateEmail
    /\ CacheGetValue(cache, KeyAllUsers(1, DefaultLimit), now) # NullData

----------------------------------------------------------------------------
(* The payload of deleteUser *)

\* C28 as claimed: the data of a deleteUser envelope is true exactly when
\* success is true.
Delete_C28_Claim ==
    (ret # NoRet /\ ret.op = "deleteUser") =>
        (ret.env.data <=> ret.env.success)

\* what deleteUser returns: data is false only when the call threw, and
\* true with success = false when the store reported an error
Delete_Returned ==
    (ret # NoRet /\ ret.op = "deleteUser") =>
        /\ ret.env.data <=> (ret.resp.thrown = NoThrow)
        /\ ret.env.success <=> ~Failed(ret.resp)

\* C28 witness: the store refused a delete and the envelope says
\* success = false with data = true
Delete_C28_Witness ==
    /\ ret # NoRet /\ ret.op = "deleteUser"
    /\ ret.resp.thrown = NoThrow /\ ret.resp.error \in InjectedErrors
    /\ ~ret.env.success
    /\ ret.env.data = TRUE

----------------------------------------------------------------------------
(* The App component's page and search-query state and the effects that
   depend on them.  A render commits the state; the effects whose
   dependencies changed then run in the order they are written.  A load is
   a getAllUsers or searchUsers call that later sets the list shown. *)

MaxPage == 3
Pages == 1..MaxPage

NoAsk == [page |-> 0]

\* loadUsers() / handleSearch(searchQuery) as the effects call them
LoadFor(page, query) ==
    IF Trim(query) = <<>>
    THEN [op |-> "getAllUsers", page |-> page, query |-> <<>>]
    ELSE [op |-> "searchUsers", page |-> page, query |-> query]

\* after the first render: useState's initial values, every effect due
InitPage ==
    /\ cache = <<>> /\ now = 0
    /\ store = <<>> /\ nextId = 1 /\ dbClock = 0
    /\ calls = <<>>
    /\ ret = NoRet
    /\ mon = MonIdle
    /\ ui = [pc |-> "page", currentPage |-> 1, searchQuery |-> <<>>,
             dirty |-> {"mount"}, inflight |-> {},
             shown |-> [op |-> "none", page |-> 0, query |-> <<>>],
             asked |-> NoAsk]

\* handlePageChange(page): the pager offers the other pages
HandlePageChange ==
    \E page \in Pages :
        /\ ui.dirty = {}
        /\ page # ui.currentPage
        /\ ui' = [ui EXCEPT !.currentPage = page, !.dirty = {"page"},
                            !.asked = [page |-> page,
                                       query |-> ui.searchQuery]]
        /\ UNCHANGED <<cache, now, store, nextId, dbClock, calls, ret, mon>>

\* the search box calls handleSearch(query): setSearchQuery and a load
HandleSearchInput ==
    \E query \in UIQueries :
        /\ ui.dirty = {}
        /\ ui' = [ui EXCEPT
                     !.searchQuery = query,
                     !.dirty = IF query = ui.searchQuery THEN {}
                               ELSE {"query"},
                     !.inflight = @ \cup {LoadFor(ui.currentPage, query)},
                     !.asked = IF query = ui.searchQuery THEN @ ELSE NoAsk]
        /\ UNCHANGED <<cache, now, store, nextId, dbClock, calls, ret, mon>>

\* the loads the effects of one commit start: the mount effect runs when
\* loadUsers is a new function (the page changed), the refresh effect runs
\* on every change, the reset effect loads only when the page is 1
EffectLoads(u) ==
    (IF u.dirty \cap {"mount", "page"} # {}
     THEN {[op |-> "getAllUsers", page |-> u.currentPage, query |-> <<>>]}
     ELSE {})
    \cup {LoadFor(u.currentPage, u.searchQuery)}

\* the reset effect: if (currentPage !== 1) setCurrentPage(1)
ResetsPage(u) == u.currentPage # 1

\* the effects after a commit
Commit ==
    /\ ui.dirty # {}
    /\ ui' = [ui EXCEPT
                 !.inflight = @ \cup EffectLoads(ui),
                 !.currentPage = IF ResetsPage(ui) THEN 1 ELSE @,
                 !.dirty = IF ResetsPage(ui) THEN {"page"} ELSE {}]
    /\ UNCHANGED <<cache, now, store, nextId, dbClock, calls, ret, mon>>

\* a load returns and sets the list: setFilteredUsers, setTotalCount
LoadDone ==
    \E load \in ui.inflight :
        /\ ui' = [ui EXCEPT !.inflight = @ \ {load}, !.shown = load]
        /\ UNCHANGED <<cache, now, store, nextId, dbClock, calls, ret, mon>>

NextPage == HandlePageChange \/ HandleSearchInput \/ Commit \/ LoadDone

SpecPage == InitPage /\ [][NextPage]_vars

\* C29 as claimed: after handlePageChange(p), with the search query as it
\* was, the page the component settles at is p, and once the loads have
\* returned the list shown is the one of page p.
Page_C29_Claim ==
    (ui.asked # NoAsk /\ ui.dirty = {}) =>
        /\ ui.currentPage = ui.asked.page
        /\ ui.inflight = {} => ui.shown.page = ui.asked.page

\* where the page settles: at 1, whatever was asked for
Page_Settles ==
    ui.dirty = {} => ui.currentPage = 1

\* C29 witness: page 2 was asked for with no search query, every effect has
\* run and every load has returned; the current page is 1
Page_C29_Witness ==
    /\ ui.asked # NoAsk /\ ui.asked.page = 2 /\ ui.asked.query = <<>>
    /\ ui.searchQuery = <<>>
    /\ ui.dirty = {} /\ ui.inflight = {}
    /\ ui.currentPage = 1

\* the same, with the list of page 2 on the screen beside page number 1
Page_C29_Mixed ==
    /\ ui.asked # NoAsk /\ ui.asked.page = 2
    /\ ui.dirty = {} /\ ui.inflight = {}
    /\ ui.currentPage = 1
    /\ ui.shown.page = 2

----------------------------------------------------------------------------
(* getCacheKey and invalidateCache on their own *)

\* the calls a key is made for: operation and parameters
KeyCalls ==
    [op : {"allUsers"}, query : {<<>>}, page : {1, 2, 11}, limit : {1, 20, 120},
     id : {0}]
    \cup [op : {"searchUsers"},
          query : {<<>>, <<"a">>, <<"a", "1">>, <<"a", ":", "1">>, <<":">>,
                   <<"1", ":", "2", "0">>, <<"a", ":", "1", ":", "2", "0">>},
          page : {1, 2, 11}, limit : {1, 20, 120}, id : {0}]
    \cup [op : {"userById"}, query : {<<>>}, page : {0}, limit : {0},
          id : {1, 2, 12}]

\* getCacheKey[op](...)
KeyOf(call) ==
    CASE call.op = "allUsers" -> KeyAllUsers(call.page, call.limit)
      [] call.op = "searchUsers" ->
            KeySearchUsers(call.query, call.page, call.limit)
      [] call.op = "userById" -> KeyUserById(call.id)

\* the calls whose results are put in the cache before it is invalidated
StoredCalls ==
    {c \in KeyCalls :
        /\ c.page \in {0, 1} /\ c.limit \in {0, 20} /\ c.id \in {0, 1, 12}
        /\ c.query \in {<<>>, <<"a">>, <<"a", ":", "1">>}}

InitKeys ==
    /\ cache = <<>> /\ now = 0
    /\ store = <<>> /\ nextId = 1 /\ dbClock = 0
    /\ calls = <<>>
    /\ ret = NoRet
    /\ mon = MonIdle
    /\ ui = NoUI

\* the keys of two calls
KeyPair ==
    \E a \in KeyCalls, b \in KeyCalls :
        /\ ret = NoRet /\ cache = <<>>
        /\ ret' = [op |-> "keys", a |-> a, b |-> b,
                   ka |-> KeyOf(a), kb |-> KeyOf(b)]
        /\ UNCHANGED <<cache, now, facadeVars>>

\* apiCache.set(getCacheKey[op](...), result)
KeyStore ==
    \E c \in StoredCalls :
        /\ ret = NoRet \/ ret.op # "keys"
        /\ cache' = CacheSet(cache, KeyOf(c), [v |-> 1], <<>>, now)
        /\ ret' = [op |-> "stored"]
        /\ UNCHANGED <<now, facadeVars>>

\* invalidateCache.allUsers()
KeyInvalidate ==
    /\ ret = NoRet \/ ret.op # "keys"
    /\ cache' = InvalidateAllUsers(cache)
    /\ ret' = [op |-> "invalidate", before |-> cache]
    /\ UNCHANGED <<now, facadeVars>>

NextKeys == KeyPair \/ KeyStore \/ KeyInvalidate

SpecKeys == InitKeys /\ [][NextKeys]_vars

\* C30: two calls have the same key only when they are the same operation
\* with the same parameters, also for query texts that hold ':' and digits;
\* invalidateCache.allUsers removes the keys of the list and search calls,
\* all of them, and leaves every users:id: entry as it was.
Keys_C30 ==
    /\ (ret # NoRet /\ ret.op = "keys") =>
          (ret.ka = ret.kb => ret.a = ret.b)
    /\ (ret # NoRet /\ ret.op = "invalidate") =>
          /\ DOMAIN cache =
                DOMAIN ret.before
                  \ {KeyOf(c) : c \in {k \in KeyCalls : k.op # "userById"}}
          /\ \A c \in KeyCalls :
                c.op = "userById" =>
                    EntryOf(cache, KeyOf(c)) = EntryOf(ret.before, KeyOf(c))

\* C30 witness: list, search and users:id: entries were in the cache, one of
\* them for a query holding ':', and after the invalidation the two
\* users:id: entries are all that is left
Keys_C30_Witness ==
    /\ ret # NoRet /\ ret.op = "invalidate"
    /\ KeySearchUsers(<<"a", ":", "1">>, 1, 20) \in DOMAIN ret.before
    /\ KeyAllUsers(1, 20) \in DOMAIN ret.before
    /\ DOMAIN cache = {KeyUserById(1), KeyUserById(12)}

\* two search calls whose query, page and limit read the same when put
\* side by side, with different keys
Keys_C30_Colon ==
    /\ ret # NoRet /\ ret.op = "keys"
    /\ ret.a.op = "searchUsers" /\ ret.b.op = "searchUsers"
    /\ ret.a.query = <<"a", ":", "1">> /\ ret.a.page = 2
    /\ ret.b.query = <<"a">> /\ ret.b.page = 1
    /\ ret.ka # ret.kb

----------------------------------------------------------------------------
(* The scripts and the cache *)

\* C27 as claimed: the scripts that write to the table invalidate the list
\* cache as the facade's mutations do, so once they have returned a
\* getAllUsers served from the cache holds the rows and the count of the
\* table as it is.
Scripts_C27_Claim ==
    (/\ ret # NoRet /\ ret.op = "getAllUsers" /\ ret.hit
     /\ \A s \in Slots : calls[s] = Idle) =>
        ret.env.data = [users |-> OnPage(ret), totalCount |-> Len(store)]

\* C27 witness: the table was seeded after the empty list was cached; no
\* call is in flight and getAllUsers(1, 20) returned the empty list from
\* the cache
Scripts_C27_Witness ==
    /\ ret # NoRet /\ ret.op = "getAllUsers" /\ ret.hit
    /\ \A s \in Slots : calls[s] = Idle
    /\ Seeded(store) = sampleUsers
    /\ ret.env.success
    /\ ret.env.data.users = <<>> /\ ret.env.data.totalCount = 0

\* the table was cleared after the list was cached: the cache still serves
\* the user that is gone
Scripts_C27_Cleared ==
    /\ ret # NoRet /\ ret.op = "getAllUsers" /\ ret.hit
    /\ \A s \in Slots : calls[s] = Idle
    /\ store = <<>>
    /\ Len(ret.env.data.users) = 1

====
